---------------------------- MODULE Spec2Model ----------------------------
(***************************************************************************)
(* Model of siglent_sdl1000x.py: the validated get/set dispatcher          *)
(* (Command.read_write), the Validate rule family, the per-mode mirrors    *)
(* and the shared input mirror (global_input_values).                      *)
(*                                                                         *)
(* Representation of Python values:                                        *)
(*   None            [t |-> "none"]                                        *)
(*   int n           [t |-> "int",   n |-> n]                              *)
(*   float x         [t |-> "float", n |-> x * Unit]  (fixed point, 1e-5)  *)
(*   str s           [t |-> "str",   s |-> <<characters of s>>]            *)
(*   any other type  [t |-> "list"]                                        *)
(* A Python str is a sequence of one-character strings, so that lower(),   *)
(* upper(), str(tuple) and the substring operator `in` are computed as the *)
(* code computes them.                                                     *)
(***************************************************************************)
EXTENDS Integers, Sequences, FiniteSets, TLC

\* One unit of the fixed-point representation of a Python float is 1e-5.
Unit == 10 ^ 5

None == [t |-> "none"]
PyInt(n) == [t |-> "int", n |-> n]
PyFloat(n) == [t |-> "float", n |-> n]
PyStr(s) == [t |-> "str", s |-> s]
PyList == [t |-> "list"]

-----------------------------------------------------------------------------
(* Python str primitives *)

UpperCase == <<"A", "B", "C", "D", "E", "F", "G", "H", "I", "J", "K", "L", "M",
               "N", "O", "P", "Q", "R", "S", "T", "U", "V", "W", "X", "Y", "Z">>
LowerCase == <<"a", "b", "c", "d", "e", "f", "g", "h", "i", "j", "k", "l", "m",
               "n", "o", "p", "q", "r", "s", "t", "u", "v", "w", "x", "y", "z">>

\* the letters str.lower() and str.upper() change, and what they become
ToLower == [c \in {UpperCase[i] : i \in 1..Len(UpperCase)} |->
               LowerCase[CHOOSE i \in 1..Len(UpperCase) : UpperCase[i] = c]]
ToUpper == [c \in {LowerCase[i] : i \in 1..Len(LowerCase)} |->
               UpperCase[CHOOSE i \in 1..Len(LowerCase) : LowerCase[i] = c]]

lower_char(c) == IF c \in DOMAIN ToLower THEN ToLower[c] ELSE c

upper_char(c) == IF c \in DOMAIN ToUpper THEN ToUpper[c] ELSE c

\* str.lower() and str.upper()
lower(s) == [i \in 1..Len(s) |-> lower_char(s[i])]
upper(s) == [i \in 1..Len(s) |-> upper_char(s[i])]

\* repr of one str element of a tuple: 'text'
repr_str(s) == <<"'">> \o s \o <<"'">>

RECURSIVE join_repr(_)
join_repr(tokens) ==
    IF Len(tokens) = 0 THEN <<>>
    ELSE IF Len(tokens) = 1 THEN repr_str(tokens[1])
    ELSE repr_str(tokens[1]) \o <<",", " ">> \o join_repr(Tail(tokens))

\* str(tuple_of_str): "('ON', 'OFF')"
str_of_tuple(tokens) == <<"(">> \o join_repr(tokens) \o <<")">>

\* x in y for two str operands: x is a substring of y
str_in(x, y) ==
    \E i \in 0..(Len(y) - Len(x)) : SubSeq(y, i + 1, i + Len(x)) = x

-----------------------------------------------------------------------------
(* Python numeric primitives *)

\* float(value) of an int or float candidate, in units
float_of(value) == IF value.t = "int" THEN value.n * Unit ELSE value.n

\* round(x, round_to) on a float of x units: to the nearest multiple of
\* 10^-round_to, an exact tie going to the even multiple.  A precision finer
\* than one unit leaves the value as it is.
round(x, round_to) ==
    IF round_to >= 5 THEN x
    ELSE LET u == 10 ^ (5 - round_to)
             flo == (x \div u) * u
             rem == x - flo
         IN  IF 2 * rem < u THEN flo
             ELSE IF 2 * rem > u THEN flo + u
             ELSE IF (x \div u) % 2 = 0 THEN flo ELSE flo + u

-----------------------------------------------------------------------------
(* class Validate *)

\* what a validator returns: the accepted text, or an exception OBJECT
\* (returned, not raised)
Accepted(text) == [res |-> "ok", out |-> text]
ValueError == [res |-> "ValueError"]
TypeError == [res |-> "TypeError"]
\* a call that raises (the exception propagates to the caller)
Raises(exc) == [res |-> "raise", exc |-> exc]

\* str(value) of a numeric candidate
str_of(value) == [t |-> "strof", v |-> value]

\* a variant that forgets the upper end
float_range_no_upper(x, y) == y[1] <= x

float_range(x, y) == y[1] <= x /\ x <= y[2]

int_range(x, y) == x \in y[1]..y[2]

find_element(x, y) == str_in(x, y)

\* x in y for a number x and a tuple of numbers y (y in units)
find_number(x, y) == \E i \in 1..Len(y) : y[i] = x

float_rng_and_str_tuples(validation_set, value, round_to) ==
    IF value.t \in {"float", "int"}
    THEN LET val == round(float_of(value), round_to)
         IN  IF float_range(val, validation_set[1])
             THEN Accepted(str_of(value))
             ELSE ValueError
    ELSE IF value.t = "str"
    THEN LET val == lower(value.s)
         IN  IF find_element(val, lower(str_of_tuple(validation_set[2])))
             THEN Accepted(PyStr(upper(val)))
             ELSE ValueError
    ELSE TypeError

int_and_str_tuples(validation_set, value) ==
    IF value.t = "int"
    THEN LET val == float_of(value)
         IN  IF find_number(val, validation_set[1])
             THEN Accepted(str_of(value))
             ELSE ValueError
    ELSE IF value.t = "str"
    THEN LET val == lower(value.s)
         IN  IF find_element(val, lower(str_of_tuple(validation_set[2])))
             THEN Accepted(PyStr(upper(val)))
             ELSE ValueError
    ELSE TypeError

float_rng_tuple(validation_set, value, round_to) ==
    IF value.t \in {"float", "int"}
    THEN LET val == round(float_of(value), round_to)
         IN  IF float_range(val, validation_set)
             THEN Accepted(str_of(value))
             ELSE ValueError
    ELSE TypeError

\* a variant that compares the candidate as it was typed
str_tuple_as_typed(validation_set, value) ==
    IF value.t = "str"
    THEN IF find_element(value.s, str_of_tuple(validation_set))
         THEN Accepted(PyStr(upper(value.s)))
         ELSE ValueError
    ELSE TypeError

str_tuple(validation_set, value) ==
    IF value.t = "str"
    THEN LET val == lower(value.s)
         IN  IF find_element(val, lower(str_of_tuple(validation_set)))
             THEN Accepted(PyStr(upper(val)))
             ELSE ValueError
    ELSE TypeError

int_tuple(validation_set, value) ==
    IF value.t = "int"
    THEN IF \E i \in 1..Len(validation_set) : validation_set[i] = value.n
         THEN Accepted(str_of(value))
         ELSE ValueError
    ELSE TypeError

int_rng_tuple(validation_set, value) ==
    IF value.t = "int"
    THEN IF int_range(value.n, validation_set)
         THEN Accepted(str_of(value))
         ELSE ValueError
    ELSE TypeError

-----------------------------------------------------------------------------
(* class ValidateInput, ValidateBattery, ValidateTest: the rules *)

MIN_MAX_DEF == << <<"M", "I", "N", "i", "m", "u", "m">>,
                  <<"M", "A", "X", "i", "m", "u", "m">>,
                  <<"D", "E", "F", "a", "u", "l", "t">> >>

on_off(value) ==
    LET on_off_values == << <<0, 1 * Unit>>,
                            << <<"O", "N">>, <<"O", "F", "F">> >> >>
    IN  int_and_str_tuples(on_off_values, value)

mode_dynamic(value) ==
    LET mode_values == << <<"C", "U", "R", "R", "e", "n", "t">>,
                          <<"V", "O", "L", "T", "a", "g", "e">>,
                          <<"P", "O", "W", "e", "r">>,
                          <<"R", "E", "S", "i", "s", "t", "a", "n", "c", "e">> >>
    IN  str_tuple(mode_values, value)

mode_static(value) ==
    LET mode_values == << <<"C", "U", "R", "R", "e", "n", "t">>,
                          <<"V", "O", "L", "T", "a", "g", "e">>,
                          <<"P", "O", "W", "e", "r">>,
                          <<"R", "E", "S", "i", "s", "t", "a", "n", "c", "e">>,
                          <<"L", "E", "D">> >>
    IN  str_tuple(mode_values, value)

current_range(value) ==
    LET current_range_values == <<5, 30>>
    IN  int_tuple(current_range_values, value)

voltage_range(value) ==
    LET voltage_range_values == <<36, 150>>
    IN  int_tuple(voltage_range_values, value)

resistance_range(value) ==
    LET resistance_range_values == << <<"L", "O", "W">>,
                                      <<"M", "I", "D", "D", "L", "E">>,
                                      <<"H", "I", "G", "H">>,
                                      <<"U", "P", "P", "E", "R">> >>
    IN  str_tuple(resistance_range_values, value)

mode_transient(value) ==
    LET mode_values == << <<"C", "O", "N", "T", "i", "n", "u", "o", "u", "s">>,
                          <<"P", "U", "L", "S", "e">>,
                          <<"T", "O", "G", "G", "l", "e">> >>
    IN  str_tuple(mode_values, value)

pulse_width(value) ==
    LET pulse_width_values == << <<2, 999 * Unit>>, MIN_MAX_DEF >>
    IN  float_rng_and_str_tuples(pulse_width_values, value, 6)

power(value, high_power) ==
    LET power_values == IF high_power
                        THEN << <<0, 300 * Unit>>, MIN_MAX_DEF >>
                        ELSE << <<0, 200 * Unit>>, MIN_MAX_DEF >>
    IN  float_rng_and_str_tuples(power_values, value, 2)

resistance(value) ==
    LET resistance_values == << <<3000, 10000 * Unit>>, MIN_MAX_DEF >>
    IN  float_rng_and_str_tuples(resistance_values, value, 3)

voltage(value) ==
    LET voltage_values == << <<0, 150 * Unit>>, MIN_MAX_DEF >>
    IN  float_rng_and_str_tuples(voltage_values, value, 3)

current(value) ==
    LET current_values == << <<0, 30 * Unit>>, MIN_MAX_DEF >>
    IN  float_rng_and_str_tuples(current_values, value, 3)

slew(value) ==
    LET slew_values == << <<100, 250000>>, MIN_MAX_DEF >>
    IN  float_rng_and_str_tuples(slew_values, value, 3)

mode_battery(value) ==
    LET mode_values == << <<"C", "U", "R", "R", "e", "n", "t">>,
                          <<"V", "O", "L", "T", "a", "g", "e">>,
                          <<"R", "E", "S", "i", "s", "t", "a", "n", "c", "e">> >>
    IN  str_tuple(mode_values, value)

capacity(value) ==
    LET capacity_values == <<0, 999999>>
    IN  int_rng_tuple(capacity_values, value)

list_count(value) ==
    LET list_count_values == <<0, 255>>
    IN  int_rng_tuple(list_count_values, value)

step_range(value) ==
    LET list_step_values == <<0, 100>>
    IN  int_rng_tuple(list_step_values, value)

led_rco(value) ==
    LET led_rco_values == << <<0, 1 * Unit>>, MIN_MAX_DEF >>
    IN  float_rng_and_str_tuples(led_rco_values, value, 2)

\* step_delay and step_time call float_rng_and_str_tuples(values, value)
\* with two of its three positional arguments: the call itself raises
\* TypeError (missing 'round_to') for every value.
step_delay(value) == Raises("TypeError")

step_time(value) == Raises("TypeError")

-----------------------------------------------------------------------------
(* Command text and the transport *)

\* A command line is the concatenation of its pieces: a literal of the
\* source, or str(v) of a Python value v.
Lit(s) == [lit |-> s]
Val(v) == [val |-> v]

\* What the instrument answers to a query.  An instrument register that no
\* write has touched answers its power-on value; a written one answers
\* what the write left there.
PowerOn(text) == [k |-> "init", q |-> text]
Stored(text) == [k |-> "set", by |-> text]
Clamped(reg) == [k |-> "clamp", q |-> reg]

\* a str built in the program: a literal, or prefix + str(answer)
Literal(s) == [k |-> "lit", s |-> s]
Concat(prefix, answer) == [k |-> "cat", s |-> prefix, r |-> answer]

\* How the instrument may treat a write: keep the value, replace it by
\* the one it prefers for that register, or drop the write.
Outcomes == {"store", "clamp", "ignore"}

\* The register a write line addresses: <header> <value> addresses
\* <header>?, <header> <index>, <value> addresses <header>? <index>, and a
\* bare <header> addresses <header>?.
Register(text) ==
    IF Len(text) = 6
    THEN <<Lit(text[1].lit \o "?"), text[2], text[3]>>
    ELSE <<Lit(text[1].lit \o "?")>>

\* self._bus.query(text): the answer
Respond(instrument, text) ==
    IF text \in DOMAIN instrument THEN instrument[text] ELSE PowerOn(text)

\* self._bus.write(text) on the instrument, under one outcome
Receive(instrument, text, outcome) ==
    LET reg == Register(text)
        put(v) == [r \in DOMAIN instrument \cup {reg} |->
                       IF r = reg THEN v ELSE instrument[r]]
    IN  CASE outcome = "store" -> put(Stored(text))
          [] outcome = "clamp" -> put(Clamped(reg))
          [] OTHER -> instrument

-----------------------------------------------------------------------------
(* Execution context of one call: the program state the call works on, what
   it put on the transport, and how it ended. *)

\* dict[key] = v
Put(d, key, v) == [x \in DOMAIN d \cup {key} |-> IF x = key THEN v ELSE d[x]]

bus_query(ctx, text) ==
    [ctx EXCEPT !.wire = Append(@, [op |-> "query", cmd |-> text,
                                    resp |-> Respond(ctx.inst, text)])]

bus_write(ctx, text) ==
    [ctx EXCEPT !.wire = Append(@, [op |-> "write", cmd |-> text]),
                !.inst = Receive(@, text, Head(ctx.oc)),
                !.oc = Tail(@)]

\* the answer to the query the context issued last
Answer(ctx) == ctx.wire[Len(ctx.wire)].resp

\* value_dict[value_key] = v, value_dict being global_input_values
\* ("input") or the mirror of a mode
Store(ctx, value_dict, value_key, v) ==
    IF value_dict = "input"
    THEN [ctx EXCEPT !.giv = Put(@, value_key, v)]
    ELSE [ctx EXCEPT !.mirror[value_dict] = Put(@, value_key, v)]

\* validator(value) for the rule an accessor passes to read_write
Validator(rule, value, high_power) ==
    CASE rule = "on_off" -> on_off(value)
      [] rule = "mode_dynamic" -> mode_dynamic(value)
      [] rule = "mode_static" -> mode_static(value)
      [] rule = "current_range" -> current_range(value)
      [] rule = "voltage_range" -> voltage_range(value)
      [] rule = "resistance_range" -> resistance_range(value)
      [] rule = "mode_transient" -> mode_transient(value)
      [] rule = "pulse_width" -> pulse_width(value)
      [] rule = "power" -> power(value, high_power)
      [] rule = "resistance" -> resistance(value)
      [] rule = "voltage" -> voltage(value)
      [] rule = "current" -> current(value)
      [] rule = "slew" -> slew(value)
      [] rule = "mode_battery" -> mode_battery(value)
      [] rule = "capacity" -> capacity(value)
      [] rule = "list_count" -> list_count(value)
      [] rule = "step_range" -> step_range(value)
      [] rule = "led_rco" -> led_rco(value)
      [] rule = "step_delay" -> step_delay(value)
      [] rule = "step_time" -> step_time(value)

\* x is 'LITERAL': the identity of two objects.  x is the str the transport
\* built from what it read; the other is the literal of the source.
is_(x, literal) == x = Literal(literal)

\* ValidateBattery.battery_level, mode being the answer to ':BATT:MODE?'
battery_level(mode, value) ==
    LET level_values ==
            IF is_(mode, "CURRENT") THEN <<0, 30 * Unit>>
            ELSE IF is_(mode, "VOLTAGE") THEN <<0, 150 * Unit>>
            ELSE <<3000, 10000 * Unit>>
    IN  float_rng_tuple(level_values, value, 3)

\* ValidateTest.list_levels, mode being the answer to ':LIST:MODE?'
list_levels(mode, value, high_power) ==
    LET level_values ==
            IF is_(mode, "CURRENT") THEN <<0, 30 * Unit>>
            ELSE IF is_(mode, "VOLTAGE") THEN <<0, 150 * Unit>>
            ELSE IF is_(mode, "RESISTANCE") THEN <<3000, 10000 * Unit>>
            ELSE IF high_power THEN <<0, 300 * Unit>>
            ELSE <<0, 200 * Unit>>
    IN  float_rng_tuple(level_values, value, 3)

\* ValidateTest.program_levels, mode being the answer to ':PROG:MODE?'.
\* (mode is 'VOLTAGE' or 'LED') is (mode is 'VOLTAGE') or 'LED', and the
\* non-empty str 'LED' is true.
program_levels(mode, value, high_power) ==
    LET level_values ==
            IF is_(mode, "CURRENT") THEN <<0, 30 * Unit>>
            ELSE IF is_(mode, "VOLTAGE") \/ TRUE THEN <<0, 150 * Unit>>
            ELSE IF is_(mode, "RESISTANCE") THEN <<3000, 10000 * Unit>>
            ELSE IF high_power THEN <<0, 300 * Unit>>
            ELSE <<0, 200 * Unit>>
    IN  float_rng_tuple(level_values, value, 3)

\* the rules that ask the instrument before they judge, and what they ask
LevelRules == {"battery_level", "list_levels", "program_levels"}

SubModeQuery(rule) ==
    CASE rule = "battery_level" -> <<Lit(":BATT:MODE?")>>
      [] rule = "list_levels" -> <<Lit(":LIST:MODE?")>>
      [] rule = "program_levels" -> <<Lit(":PROG:MODE?")>>

\* what read_write is handed as validator when the caller passes what a rule
\* returned (a str or an exception object) in place of the rule
NotCallable == "not callable"

\* a variant whose level rules know the sub-mode without asking
Validate_unasked(ctx, rule, value) ==
    IF rule = NotCallable
    THEN [ctx EXCEPT !.val = Raises("TypeError")]
    ELSE IF rule \in LevelRules
    THEN LET mode == Respond(ctx.inst, SubModeQuery(rule))
         IN  [ctx EXCEPT !.val =
                CASE rule = "battery_level" -> battery_level(mode, value)
                  [] rule = "list_levels" -> list_levels(mode, value, ctx.high_power)
                  [] rule = "program_levels" -> program_levels(mode, value, ctx.high_power)]
    ELSE [ctx EXCEPT !.val = Validator(rule, value, ctx.high_power)]

\* val = validator(value) in read_write: the verdict is left in ctx.val, the
\* query of a rule that asks the instrument on the wire.  Calling a str or
\* an exception object raises TypeError.
Validate(ctx, rule, value) ==
    IF rule = NotCallable
    THEN [ctx EXCEPT !.val = Raises("TypeError")]
    ELSE IF rule \in LevelRules
    THEN LET c == bus_query(ctx, SubModeQuery(rule))
             mode == Answer(c)
         IN  [c EXCEPT !.val =
                CASE rule = "battery_level" -> battery_level(mode, value)
                  [] rule = "list_levels" -> list_levels(mode, value, ctx.high_power)
                  [] rule = "program_levels" -> program_levels(mode, value, ctx.high_power)]
    ELSE [ctx EXCEPT !.val = Validator(rule, value, ctx.high_power)]

\* print(self.error_text('WARNING', val))
Warn(ctx) == [ctx EXCEPT !.diag = @ + 1]

\* Command.read_write(query, write, validator, value, value_dict, value_key)
\* The function result is left in ctx.ret; an exception ends the call.
\* a variant that sends what the validator returned
send_validated(ctx, query, write, value, value_dict, value_key) ==
    LET sent == IF "out" \in DOMAIN ctx.val THEN ctx.val.out ELSE value
        c1 == bus_write(ctx, write \o <<Lit(" "), Val(sent)>>)
        c2 == bus_query(c1, query)
    IN  IF value_dict # "none"
        THEN Store(c2, value_dict, value_key, Answer(c2))
        ELSE c1

\* a variant that stores what it sent instead of asking the instrument
send_and_assume(ctx, query, write, value, value_dict, value_key) ==
    LET c1 == bus_write(ctx, write \o <<Lit(" "), Val(value)>>)
        c2 == bus_query(c1, query)
    IN  IF value_dict # "none"
        THEN Store(c2, value_dict, value_key, Stored(c1.wire[Len(c1.wire)].cmd))
        ELSE c1

send_and_confirm(ctx, query, write, value, value_dict, value_key) ==
    LET c1 == bus_write(ctx, write \o <<Lit(" "), Val(value)>>)
        c2 == bus_query(c1, query)
    IN  IF value_dict # "none"
        THEN Store(c2, value_dict, value_key, Answer(c2))
        ELSE c1

\* a variant whose accepted set returns what the validator returned
read_write_telling(ctx, query, write, rule, value, value_dict, value_key) ==
    IF value = None
    THEN LET c1 == bus_query(ctx, query)
         IN  [c1 EXCEPT !.ret = Answer(c1)]
    ELSE IF rule # "none"
    THEN LET c0 == [Validate(ctx, rule, value) EXCEPT !.ret = None]
             val == c0.val
         IN  IF val.res = "raise"
             THEN [c0 EXCEPT !.exc = val.exc]
             ELSE IF val.res \in {"ValueError", "TypeError"}
             THEN Warn(c0)
             ELSE [send_and_confirm(c0, query, write, value,
                                    value_dict, value_key) EXCEPT !.ret = val.out]
    ELSE send_and_confirm([ctx EXCEPT !.ret = None], query, write, value,
                          value_dict, value_key)

\* a variant whose get keeps the answer in the mirror
read_write_caching(ctx, query, write, rule, value, value_dict, value_key) ==
    IF value = None
    THEN LET c1 == bus_query(ctx, query)
         IN  [Store(c1, value_dict, value_key, Answer(c1)) EXCEPT !.ret = Answer(c1)]
    ELSE IF rule # "none"
    THEN LET c0 == [Validate(ctx, rule, value) EXCEPT !.ret = None]
             val == c0.val
         IN  IF val.res = "raise"
             THEN [c0 EXCEPT !.exc = val.exc]
             ELSE IF val.res \in {"ValueError", "TypeError"}
             THEN Warn(c0)
             ELSE send_and_confirm(c0, query, write, value,
                                   value_dict, value_key)
    ELSE send_and_confirm([ctx EXCEPT !.ret = None], query, write, value,
                          value_dict, value_key)

\* a variant that warns about a refused candidate and sends it all the same
read_write_unchecked(ctx, query, write, rule, value, value_dict, value_key) ==
    IF value = None
    THEN LET c1 == bus_query(ctx, query)
         IN  [c1 EXCEPT !.ret = Answer(c1)]
    ELSE IF rule # "none"
    THEN LET c0 == [Validate(ctx, rule, value) EXCEPT !.ret = None]
             val == c0.val
         IN  IF val.res = "raise"
             THEN [c0 EXCEPT !.exc = val.exc]
             ELSE IF val.res \in {"ValueError", "TypeError"}
             THEN send_and_confirm(Warn(c0), query, write, value,
                                   value_dict, value_key)
             ELSE send_and_confirm(c0, query, write, value,
                                   value_dict, value_key)
    ELSE send_and_confirm([ctx EXCEPT !.ret = None], query, write, value,
                          value_dict, value_key)

read_write(ctx, query, write, rule, value, value_dict, value_key) ==
    IF value = None
    THEN LET c1 == bus_query(ctx, query)
         IN  [c1 EXCEPT !.ret = Answer(c1)]
    ELSE IF rule # "none"
    THEN LET c0 == [Validate(ctx, rule, value) EXCEPT !.ret = None]
             val == c0.val
         IN  IF val.res = "raise"
             THEN [c0 EXCEPT !.exc = val.exc]
             ELSE IF val.res \in {"ValueError", "TypeError"}
             THEN Warn(c0)
             ELSE send_and_confirm(c0, query, write, value,
                                   value_dict, value_key)
    ELSE send_and_confirm([ctx EXCEPT !.ret = None], query, write, value,
                          value_dict, value_key)

\* Command.read(query)
read(ctx, query) ==
    LET c1 == bus_query(ctx, query)
    IN  [c1 EXCEPT !.ret = Answer(c1)]

\* Command.write(write) with no validator
write_only(ctx, write) == bus_write(ctx, write)

\* a variant of the facade that keeps the slot (dict, key) of the parameter
\* it writes; dict is "none" for a line of no parameter
Device_write_mirrored(ctx, command, dict, key) ==
    LET c1 == bus_write(ctx, command)
    IN  IF dict = "none" THEN c1
        ELSE Store(c1, dict, key, Respond(c1.inst, Register(command)))

\* Device.write(command): self._bus.write(command).  (dict, key) is the
\* slot of the parameter the command addresses, which the facade does not
\* look at.
Device_write(ctx, command, dict, key) == bus_write(ctx, command)

\* Device.query(command): return self._bus.query(command)
Device_query(ctx, command) ==
    LET c1 == bus_query(ctx, command)
    IN  [c1 EXCEPT !.ret = Answer(c1)]

-----------------------------------------------------------------------------
(* The accessors: each is one call of read_write with its own strings, rule,
   dict and key.  dict is "input" for global_input_values, else the mode
   whose mirror it is.  An indexed accessor takes a leading step. *)

Acc(dict, key, query, write, rule, indexed) ==
    [dict |-> dict, key |-> key, query |-> query, write |-> write,
     rule |-> rule, indexed |-> indexed]

Accessors ==
    [ input_control   |-> Acc("input", "input_on", ":INP?", ":INP", "on_off", FALSE),
      short           |-> Acc("input", "short_on", ":SHOR?", ":SHOR", "on_off", FALSE),
      cc_level        |-> Acc("cc", "level", ":CURR?", ":CURR", "current", FALSE),
      cc_current_range |-> Acc("cc", "current_range", ":CURR:IRANG?", ":CURR:IRANG", "current_range", FALSE),
      cc_slew_neg     |-> Acc("cc", "slew_neg", ":CURR:SLEW:NEG?", ":CURR:SLEW:NEG", "slew", FALSE),
      cp_level        |-> Acc("cp", "level", ":POW?", ":POW", "power", FALSE),
      dyncc_pulse_mode |-> Acc("dyncc", "pulse_mode", ":CURR:TRAN:MODE?", ":CURR:TRAN:MODE", "mode_transient", FALSE),
      dyncc_a_level   |-> Acc("dyncc", "a_level", ":CURR:TRAN:ALEV?", ":CURR:TRAN:ALEV", "current", FALSE),
      dyncc_b_level   |-> Acc("dyncc", "b_level", ":CURR:TRAN:BLEV?", ":CURR:TRAN:BLEV", "current", FALSE),
      dyncc_a_width   |-> Acc("dyncc", "a_width", ":CURR:TRAN:AWID?", ":CURR:TRAN:AWID", "pulse_width", FALSE),
      dyncc_b_width   |-> Acc("dyncc", "b_width", ":CURR:TRAN:BWID?", ":CURR:TRAN:BWID", "pulse_width", FALSE),
      list_level      |-> Acc("list", "level", ":LIST:LEV?", ":LIST:LEV", "list_levels", TRUE),
      bat_mode        |-> Acc("bat", "batt_mode", ":BATT:MODE?", ":BATT:MODE", "mode_battery", FALSE),
      bat_level       |-> Acc("bat", "level", ":BATT:LEV?", ":BATT:LEV", "battery_level", FALSE),
      prog_level      |-> Acc("prog", "level", ":PROG:LEV?", ":PROG:LEV", "program_levels", TRUE),
      list_count      |-> Acc("list", "count", ":LIST:COUN?", ":LIST:COUN", "list_count", FALSE),
      list_slew       |-> Acc("list", "slew", ":LIST:SLEW?", ":CURR:SLEW", "slew", TRUE),
      ocp_step_current |-> Acc("ocp", "step_current", ":OCP:STEP?", ":OCP:STEP", "current", FALSE),
      ocp_step_delay  |-> Acc("ocp", "step_delay", ":OCP:STEP?", ":OCP:STEP", "step_time", FALSE),
      prog_step_mode  |-> Acc("prog", "program_mode", ":PROG:MODE?", ":PROG:MODE", "mode_static", TRUE),
      prog_time_on    |-> Acc("prog", "time_on", ":PROG:TIME:ON?", ":PROG:TIME:ON", "step_time", TRUE) ]

AccessorNames == DOMAIN Accessors

\* query = ':LIST:SLEW? ' + str(step)
QueryText(a, step) ==
    IF Accessors[a].indexed
    THEN <<Lit(Accessors[a].query), Lit(" "), Val(step)>>
    ELSE <<Lit(Accessors[a].query)>>

\* write = ':CURR:SLEW ' + str(step) + ','
WriteText(a, step) ==
    IF Accessors[a].indexed
    THEN <<Lit(Accessors[a].write), Lit(" "), Val(step), Lit(",")>>
    ELSE <<Lit(Accessors[a].write)>>

\* the accessors that call self._validate.step_range(step): the program
\* accessors, ModeList.level and ModeList.width; ModeList.slew does not
StepChecked == {"list_level", "prog_level", "prog_step_mode", "prog_time_on"}

\* a variant that heeds what step_range returned
accessor_gated(ctx, a, step, value) ==
    LET checked == IF a \in StepChecked THEN step_range(step) ELSE Accepted(str_of(step))
    IN  IF checked.res # "ok"
        THEN Warn([ctx EXCEPT !.val = checked])
        ELSE read_write(ctx, QueryText(a, step), WriteText(a, step),
                        Accessors[a].rule, value, Accessors[a].dict, Accessors[a].key)

\* the body of accessor a called with (step, value).  The statement
\* self._validate.step_range(step) stands alone: what it returns (the text
\* or an exception object; int_rng_tuple never raises) is dropped.
accessor(ctx, a, step, value) ==
    LET checked == IF a \in StepChecked THEN step_range(step) ELSE Accepted(str_of(step))
    IN  read_write(ctx, QueryText(a, step), WriteText(a, step),
                   Accessors[a].rule, value, Accessors[a].dict, Accessors[a].key)

\* a variant that binds a lone argument to the candidate of every accessor
Bind_candidate_first(a, args) ==
    [step |-> IF Len(args) >= 2 THEN args[1] ELSE PyInt(1),
     value |-> IF Len(args) >= 2 THEN args[2]
               ELSE IF Len(args) = 1 THEN args[1] ELSE None]

\* Python binds the positional arguments to the parameters in order:
\* (self, set_x=None) of most accessors, (self, step=1, set_x=None) of the
\* list and program accessors
Bind(a, args) ==
    IF Accessors[a].indexed
    THEN [step |-> IF Len(args) >= 1 THEN args[1] ELSE PyInt(1),
          value |-> IF Len(args) >= 2 THEN args[2] ELSE None]
    ELSE [step |-> PyInt(1),
          value |-> IF Len(args) >= 1 THEN args[1] ELSE None]

\* the next statement of a method body: skipped when an exception is on its
\* way to the caller
Then(ctx, a, value) ==
    IF ctx.exc # "none" THEN ctx ELSE accessor(ctx, a, PyInt(1), value)

\* a variant that validates b before it sends a
set_a_and_b_checked_first(ctx, set_a_level, set_b_level, set_a_width, set_b_width) ==
    IF Validator("current", set_b_level, ctx.high_power).res # "ok"
    THEN Warn([ctx EXCEPT !.val = Validator("current", set_b_level, ctx.high_power)])
    ELSE Then(Then(Then(Then(ctx, "dyncc_a_level", set_a_level),
                        "dyncc_b_level", set_b_level),
                   "dyncc_a_width", set_a_width),
              "dyncc_b_width", set_b_width)

\* a variant that gives up at the first field its rule refuses
set_a_and_b_stopping(ctx, set_a_level, set_b_level, set_a_width, set_b_width) ==
    LET next(c, a, value) == IF c.diag > 0 THEN c ELSE Then(c, a, value)
    IN  next(next(next(next(ctx, "dyncc_a_level", set_a_level),
                       "dyncc_b_level", set_b_level),
                  "dyncc_a_width", set_a_width),
             "dyncc_b_width", set_b_width)

\* ModeDynamicCC.set_a_and_b
set_a_and_b(ctx, set_a_level, set_b_level, set_a_width, set_b_width) ==
    Then(Then(Then(Then(ctx, "dyncc_a_level", set_a_level),
                   "dyncc_b_level", set_b_level),
              "dyncc_a_width", set_a_width),
         "dyncc_b_width", set_b_width)

-----------------------------------------------------------------------------
(* Input and the modes: enable(), on(), off() *)

CURR == <<"C", "U", "R", "R">>
VOLT == <<"V", "O", "L", "T">>
POW == <<"P", "O", "W">>
RES == <<"R", "E", "S">>
LED == <<"L", "E", "D">>
ON == <<"O", "N">>
OFF == <<"O", "F", "F">>

StaticModes == {"cc", "cv", "cp", "cr", "led"}
DynamicModes == {"dyncc", "dyncv", "dyncp", "dyncr"}
TestModes == {"list", "bat", "ocp", "opp", "prog"}
ModeNames == StaticModes \cup DynamicModes \cup TestModes

\* the argument each mode's enable() passes to _mode
FunctionOf(m) ==
    CASE m \in {"cc", "dyncc"} -> CURR
      [] m \in {"cv", "dyncv"} -> VOLT
      [] m \in {"cp", "dyncp"} -> POW
      [] m \in {"cr", "dyncr"} -> RES
      [] m = "led" -> LED

\* Input.input_control(set_input_on_off)
input_control(ctx, set_input_on_off) ==
    read_write(ctx, <<Lit(":INP?")>>, <<Lit(":INP")>>, "on_off",
               set_input_on_off, "input", "input_on")

\* ModeStatic._mode(set_static_mode) and ModeDynamic._mode(set_dynamic_mode)
mode_select(ctx, query, write, rule, prefix, set_mode) ==
    LET c1 == read_write(ctx, query, write, rule, set_mode, "input", "mode")
    IN  IF c1.ret = None
        THEN LET c2 == bus_query(c1, query)
             IN  Store(c2, "input", "mode", Concat(prefix, Answer(c2)))
        ELSE c1

ModeStatic_mode(ctx, set_static_mode) ==
    mode_select(ctx, <<Lit(":FUNC?")>>, <<Lit(":FUNC")>>, "mode_static",
                "STATIC ", set_static_mode)

ModeDynamic_mode(ctx, set_dynamic_mode) ==
    mode_select(ctx, <<Lit(":FUNC:TRAN?")>>, <<Lit(":FUNC:TRAN")>>,
                "mode_dynamic", "DYNAMIC ", set_dynamic_mode)

\* a variant that marks the input as off when it enables the list
ModeList_enable_input_off(ctx) ==
    write_only(Store(Store(ctx, "input", "mode", Literal("LIST")),
                     "input", "input_on", Literal("0")),
               <<Lit(":LIST:STAT:ON")>>)

ModeList_enable(ctx) ==
    write_only(Store(ctx, "input", "mode", Literal("LIST")),
               <<Lit(":LIST:STAT:ON")>>)

\* a variant that takes the function for enabled without asking
ModeBattery_enable_assumed(ctx) ==
    LET c1 == write_only(ctx, <<Lit(":BATT:FUNC")>>)
        c2 == Store(c1, "input", "mode", Literal("BATTERY"))
    IN  Store(c2, "bat", "enable", Literal("1"))

ModeBattery_enable(ctx) ==
    LET c1 == write_only(ctx, <<Lit(":BATT:FUNC")>>)
        c2 == Store(c1, "input", "mode", Literal("BATTERY"))
        c3 == bus_query(c2, <<Lit(":BATT:FUNC?")>>)
    IN  Store(c3, "bat", "enable", Answer(c3))

ModeOCP_enable(ctx) ==
    write_only(Store(ctx, "input", "mode", Literal("OCP")),
               <<Lit(":OCP:FUNC")>>)

ModeOPP_enable(ctx) ==
    write_only(Store(ctx, "input", "mode", Literal("OCP")),
               <<Lit(":OPP:FUNC")>>)

ModeProgram_enable(ctx) ==
    Store(write_only(ctx, <<Lit(":PROG:STAT:ON")>>),
          "input", "mode", Literal("Program"))

\* <mode>.enable()
enable(ctx, m) ==
    CASE m \in StaticModes -> ModeStatic_mode(ctx, PyStr(FunctionOf(m)))
      [] m \in DynamicModes -> ModeDynamic_mode(ctx, PyStr(FunctionOf(m)))
      [] m = "list" -> ModeList_enable(ctx)
      [] m = "bat" -> ModeBattery_enable(ctx)
      [] m = "ocp" -> ModeOCP_enable(ctx)
      [] m = "opp" -> ModeOPP_enable(ctx)
      [] m = "prog" -> ModeProgram_enable(ctx)

\* a variant that switches the input on before it selects the function
on_input_first(ctx, m) == enable(input_control(ctx, PyStr(ON)), m)

\* a variant that relies on an enable() made earlier
on_without_enable(ctx, m) == input_control(ctx, PyStr(ON))

\* <mode>.on(): self.enable(); self.input_control('ON')
on(ctx, m) == input_control(enable(ctx, m), PyStr(ON))

\* a variant that also forgets the active function
off_forgetting(ctx) ==
    Store(input_control(ctx, PyStr(OFF)), "input", "mode", Literal("OFF"))

\* Input.off(): self.input_control('OFF')
off(ctx) == input_control(ctx, PyStr(OFF))

-----------------------------------------------------------------------------
(* class Common: the register accessors *)

register_8(value) ==
    LET register_values == <<0, 128>>
    IN  int_rng_tuple(register_values, value)

preset(value) ==
    LET preset_values == <<0, 9>>
    IN  int_rng_tuple(preset_values, value)

\* the header and the rule of ese, sre, rcl and sav
CommonRegisters ==
    [ ese |-> [header |-> "*ESE", rule |-> "register_8"],
      sre |-> [header |-> "*SRE", rule |-> "register_8"],
      rcl |-> [header |-> "*RCL", rule |-> "preset"],
      sav |-> [header |-> "*SAV", rule |-> "preset"] ]

\* Common.ese(reg_value) and its like:
\*     val = self._validate.register_8(reg_value)
\*     write = '*ESE ' + str(val)
\*     rvalue = self._command.read_write(query, write, val, reg_value)
\* The validator read_write receives is val, what the rule returned.
Common_register(ctx, r, reg_value) ==
    LET val == IF CommonRegisters[r].rule = "register_8"
               THEN register_8(reg_value) ELSE preset(reg_value)
        query == <<Lit(CommonRegisters[r].header \o "?")>>
        write == <<Lit(CommonRegisters[r].header \o " "), Val(val)>>
    IN  read_write(ctx, query, write, NotCallable, reg_value, "none", "none")

\* the values the register accessors are tried with: the ends of the range,
\* the integers next to them, a float and a str
RegisterCandidates(r) ==
    LET top == IF CommonRegisters[r].rule = "register_8" THEN 128 ELSE 9
    IN  {PyInt(0), PyInt(top), PyInt(top + 1), PyInt(0 - 1),
         PyFloat(1 * Unit), PyStr(<<"x">>)}

-----------------------------------------------------------------------------
(* The candidates the calls are tried with *)

\* the range and the rounding precision each range rule declares
DeclaredRange(rule, hp) ==
    CASE rule = "pulse_width" -> <<2, 999 * Unit, 6>>
      [] rule = "power" -> <<0, (IF hp THEN 300 ELSE 200) * Unit, 2>>
      [] rule = "resistance" -> <<3000, 10000 * Unit, 3>>
      [] rule = "voltage" -> <<0, 150 * Unit, 3>>
      [] rule = "current" -> <<0, 30 * Unit, 3>>
      [] rule = "slew" -> <<100, 250000, 3>>
      [] rule = "led_rco" -> <<0, 1 * Unit, 2>>
      [] rule = "step_delay" -> <<100, 999 * Unit, 5>>
      [] rule = "step_time" -> <<1000, 100 * Unit, 5>>

DeclaredIntRange(rule) ==
    CASE rule = "capacity" -> <<0, 999999>>
      [] rule = "list_count" -> <<0, 255>>
      [] rule = "step_range" -> <<0, 100>>

FloatRules == {"pulse_width", "power", "resistance", "voltage", "current",
               "slew", "led_rco", "step_delay", "step_time"}
IntRangeRules == {"capacity", "list_count", "step_range"}
IntSetRules == {"current_range", "voltage_range"}
TokenRules == {"mode_dynamic", "mode_static", "resistance_range",
               "mode_transient", "mode_battery"}

\* the tokens a rule that takes strings declares
DeclaredTokens(rule) ==
    CASE rule \in FloatRules -> MIN_MAX_DEF
      [] rule = "on_off" -> <<ON, OFF>>
      [] rule = "mode_dynamic" ->
            << <<"C", "U", "R", "R", "e", "n", "t">>,
               <<"V", "O", "L", "T", "a", "g", "e">>,
               <<"P", "O", "W", "e", "r">>,
               <<"R", "E", "S", "i", "s", "t", "a", "n", "c", "e">> >>
      [] rule = "mode_static" ->
            << <<"C", "U", "R", "R", "e", "n", "t">>,
               <<"V", "O", "L", "T", "a", "g", "e">>,
               <<"P", "O", "W", "e", "r">>,
               <<"R", "E", "S", "i", "s", "t", "a", "n", "c", "e">>,
               <<"L", "E", "D">> >>
      [] rule = "resistance_range" ->
            << <<"L", "O", "W">>, <<"M", "I", "D", "D", "L", "E">>,
               <<"H", "I", "G", "H">>, <<"U", "P", "P", "E", "R">> >>
      [] rule = "mode_transient" ->
            << <<"C", "O", "N", "T", "i", "n", "u", "o", "u", "s">>,
               <<"P", "U", "L", "S", "e">>, <<"T", "O", "G", "G", "l", "e">> >>
      [] rule = "mode_battery" ->
            << <<"C", "U", "R", "R", "e", "n", "t">>,
               <<"V", "O", "L", "T", "a", "g", "e">>,
               <<"R", "E", "S", "i", "s", "t", "a", "n", "c", "e">> >>
      [] OTHER -> <<>>

\* one rounding step of a precision, and an amount below half of it
RoundStep(round_to) == IF round_to >= 5 THEN 1 ELSE 10 ^ (5 - round_to)
Finer(round_to) == IF round_to >= 5 THEN 0 ELSE 4 * 10 ^ (4 - round_to)

\* levels that tell the bounds of the sub-modes and of the power range apart
LevelCandidates ==
    {PyFloat(1000), PyInt(20), PyInt(40), PyInt(160), PyInt(250), PyInt(20000)}

NumberCandidates(rule, hp) ==
    IF rule \in FloatRules
    THEN LET d == DeclaredRange(rule, hp)
         IN  { PyFloat(d[1]),
               IF d[2] % Unit = 0 THEN PyInt(d[2] \div Unit) ELSE PyFloat(d[2]),
               PyFloat(d[2] + Finer(d[3])), PyFloat(d[2] + RoundStep(d[3])),
               PyFloat(d[1] - RoundStep(d[3])) }
    ELSE IF rule \in IntRangeRules
    THEN LET d == DeclaredIntRange(rule)
         IN  { PyInt(d[1]), PyInt(d[2]), PyInt(d[1] - 1), PyInt(d[2] + 1),
               PyFloat(d[1] * Unit) }
    ELSE IF rule \in LevelRules THEN LevelCandidates
    ELSE IF rule = "current_range" THEN {PyInt(5), PyInt(30), PyInt(6), PyFloat(5 * Unit)}
    ELSE IF rule = "voltage_range" THEN {PyInt(36), PyInt(150), PyInt(37), PyFloat(36 * Unit)}
    ELSE IF rule = "on_off" THEN {PyInt(0), PyInt(1), PyInt(2), PyFloat(1 * Unit)}
    ELSE {PyInt(1)}

\* a token of the rule in two spellings, the empty string, a fragment of a
\* token, the text between two tokens of a tuple's str(), and a stranger
StringCandidates(rule) ==
    LET tokens == DeclaredTokens(rule)
    IN  IF Len(tokens) = 0 THEN {PyStr(<<"x">>)}
        ELSE IF rule \in FloatRules
        THEN {PyStr(upper(tokens[1])), PyStr(<<>>), PyStr(<<"x">>)}
        ELSE { PyStr(upper(tokens[1])), PyStr(lower(tokens[1])),
               PyStr(<<>>), PyStr(<<tokens[1][1]>>),
               PyStr(<<"'", ",", " ", "'">>), PyStr(<<"x">>) }

Candidates(rule, hp) ==
    NumberCandidates(rule, hp) \cup StringCandidates(rule) \cup {PyList}

\* the levels and widths set_a_and_b is tried with: one the rule accepts and
\* one it refuses
ABLevels == {PyFloat(1 * Unit), PyInt(31)}
ABWidths == {PyFloat(1 * Unit), PyInt(1000)}

\* the steps the indexed accessors are tried with: two of the table, one
\* beyond its last row and one that is no int
Steps == {PyInt(1), PyInt(2), PyInt(101), PyFloat(150000)}

\* the command lines the facade is tried with: a level the rule of the
\* accessor accepts, one it refuses, the input switch and a line of no
\* accessor
RawWrites ==
    { <<Lit(":CURR"), Lit(" "), Val(PyInt(5))>>,
      <<Lit(":CURR"), Lit(" "), Val(PyInt(99))>>,
      <<Lit(":INP"), Lit(" "), Val(PyStr(ON))>>,
      <<Lit("*RST")>> }

RawQueries == { <<Lit(":CURR?")>>, <<Lit(":INP?")>> }

StepsOf(a) == IF Accessors[a].indexed THEN Steps ELSE {PyInt(1)}

\* the positional arguments of the calls that pass no candidate
GetArgs(a) ==
    {<<>>} \cup (IF Accessors[a].indexed THEN {<<s>> : s \in Steps} ELSE {})

-----------------------------------------------------------------------------
(* State *)

\* the greatest number of calls made on one Device
MaxCalls == 2

VARIABLES
    inst,                 \* the instrument: register -> what it answers
    high_power,           \* ValidateInput._high_power
    global_input_values,  \* the shared input mirror
    mirror,               \* mode -> that mode's mirror dict
    wire,                 \* what the last call put on the transport, in order
    call,                 \* the last call: what was called and how it ended
    prev,                 \* the call before it
    calls,                \* the number of calls made
    threads,              \* the callers that share the Device, and where each
                          \* is in the set it is making
    second                \* a second Device of the same process: its
                          \* instrument and what its objects hold

vars == <<inst, high_power, global_input_values, mirror, wire, call, prev, calls,
          threads, second>>

\* no second Device
NoSecond == [built |-> FALSE]

\* the key -> query of each mirror's population at construction
Populate(m) ==
    CASE m = "cc" -> [level |-> ":CURR?", current_range |-> ":CURR:IRANG?",
                      slew_pos |-> ":CURR:SLEW:POS?", slew_neg |-> ":CURR:SLEW:POS?"]
      [] m = "cv" -> [level |-> ":VOLT?"]
      [] m = "cp" -> [level |-> ":POW?"]
      [] m = "cr" -> [level |-> ":RES?"]
      [] m = "led" -> [rco |-> ":LED:RCO?"]
      [] m = "dyncc" -> [pulse_mode |-> ":CURR:TRAN:MODE?",
                         a_level |-> ":CURR:TRAN:ALEV?", b_level |-> ":CURR:TRAN:BLEV?",
                         a_width |-> ":CURR:TRAN:AWID?", b_width |-> ":CURR:TRAN:BWID?"]
      [] m = "dyncv" -> [pulse_mode |-> ":VOLT:TRAN:MODE?"]
      [] m = "dyncp" -> [pulse_mode |-> ":POW:TRAN:MODE?"]
      [] m = "dyncr" -> [enable |-> ":LIST:STAT?", pulse_mode |-> ":RES:TRAN:MODE?"]
      [] m = "list" -> [enable |-> ":LIST:STAT?", count |-> ":LIST:COUN?"]
      [] m = "bat" -> [enable |-> ":BATT:FUNC?", batt_mode |-> ":BATT:MODE?",
                       level |-> ":BATT:LEV?"]
      [] m = "ocp" -> [enable |-> ":OCP:FUNC?", step_current |-> ":OCP:STEP?",
                       step_delay |-> ":OCP:STEP?"]
      [] m = "opp" -> [enable |-> ":OPP:FUNC?"]
      [] m = "prog" -> [enable |-> ":PROG:STAT?"]

\* the keys populated by an indexed accessor called with its default step 1
PopulateIndexed(m) ==
    CASE m = "list" -> [level |-> ":LIST:LEV?", slew |-> ":LIST:SLEW?"]
      [] m = "prog" -> [step_mode |-> ":PROG:MODE?", level |-> ":PROG:LEV?",
                        time_on |-> ":PROG:TIME:ON?"]
      [] OTHER -> [none \in {} |-> ""]

NoCall == [op |-> "none", who |-> "", args |-> 0, step |-> None, value |-> None,
           val |-> None, ret |-> None, exc |-> "none", diag |-> 0]

\* The state when Device.__init__ returns on an instrument that is not one
\* of the high power models.  ModeStatic.__init__ has sent
\* ':FUNC CURR'; the mirrors hold the answers of the population queries; the
\* last Input.__init__ and ModeDynamic.__init__ (of ModeDynamicCR) filled
\* global_input_values.
Constructed ==
    /\ inst = (<<Lit(":FUNC?")>> :>
                   Stored(<<Lit(":FUNC"), Lit(" "), Val(PyStr(CURR))>>))
    /\ high_power = FALSE
    /\ global_input_values =
           [input_on |-> PowerOn(<<Lit(":INP?")>>),
            short_on |-> PowerOn(<<Lit(":SHOR?")>>),
            mode |-> PowerOn(<<Lit(":FUNC:TRAN?")>>)]
    /\ mirror = [m \in ModeNames |->
                   LET p == Populate(m)
                       q == PopulateIndexed(m)
                   IN  [key \in DOMAIN p \cup DOMAIN q |->
                          IF key \in DOMAIN p
                          THEN PowerOn(<<Lit(p[key])>>)
                          ELSE PowerOn(<<Lit(q[key]), Lit(" "), Val(PyInt(1))>>)]]
    /\ wire = <<>>
    /\ call = NoCall
    /\ prev = [op |-> "none", who |-> ""]
    /\ calls = 0
    /\ second = NoSecond

\* one caller, whose calls each run to their end
Init == Constructed /\ threads = <<>>

-----------------------------------------------------------------------------
(* The calls *)

\* the context a call starts in; oc is how the instrument will treat the
\* writes of this call, in order
Ctx(oc) ==
    [inst |-> inst, giv |-> global_input_values, mirror |-> mirror,
     high_power |-> high_power, wire |-> <<>>, val |-> None, ret |-> None,
     exc |-> "none", diag |-> 0, oc |-> oc]

Writes(w) == SelectSeq(w, LAMBDA o : o.op = "write")
Queries(w) == SelectSeq(w, LAMBDA o : o.op = "query")

\* the call returns (or raises): its effects become the state
Return(c, op, who, args, step, value) ==
    /\ inst' = c.inst
    /\ global_input_values' = c.giv
    /\ mirror' = c.mirror
    /\ wire' = c.wire
    /\ call' = [op |-> op, who |-> who, args |-> args, step |-> step,
                value |-> value,
                val |-> c.val, ret |-> c.ret, exc |-> c.exc, diag |-> c.diag]
    /\ prev' = [op |-> call.op, who |-> call.who]
    /\ calls' = calls + 1
    /\ UNCHANGED <<high_power, threads, second>>

\* what read_write does with the bound parameters: `if value is None`
Kind(b) == IF b.value = None THEN "get" ELSE "set"

\* <accessor>() or, of an accessor with a step parameter, <accessor>(step)
Get ==
    /\ calls < MaxCalls
    /\ \E a \in AccessorNames : \E args \in GetArgs(a) :
          LET b == Bind(a, args)
          IN  Return(accessor(Ctx(<<"store">>), a, b.step, b.value),
                     Kind(b), a, Len(args), b.step, b.value)

\* <accessor>(value) or, of an accessor with a step parameter,
\* <accessor>(step, value)
Set ==
    /\ calls < MaxCalls
    /\ \E a \in AccessorNames : \E step \in StepsOf(a) :
       \E value \in Candidates(Accessors[a].rule, high_power) :
       \E o \in Outcomes :
          LET args == IF Accessors[a].indexed THEN <<step, value>> ELSE <<value>>
              b == Bind(a, args)
          IN  Return(accessor(Ctx(<<o>>), a, b.step, b.value),
                     Kind(b), a, Len(args), b.step, b.value)

\* <mode>.enable()
Enable ==
    /\ calls < MaxCalls
    /\ \E m \in ModeNames : \E o \in Outcomes :
          Return([enable(Ctx(<<o>>), m) EXCEPT !.ret = None],
                 "enable", m, 0, None, None)

\* <mode>.on()
On ==
    /\ calls < MaxCalls
    /\ \E m \in ModeNames : \E o1 \in Outcomes : \E o2 \in Outcomes :
          Return([on(Ctx(<<o1, o2>>), m) EXCEPT !.ret = None],
                 "on", m, 0, None, None)

\* <mode>.off(): Input.off, the same method on every mode
Off ==
    /\ calls < MaxCalls
    /\ \E o \in Outcomes :
          Return([off(Ctx(<<o>>)) EXCEPT !.ret = None],
                 "off", "input", 0, None, None)

\* dyn.set_a_and_b(a, b, wa, wb); the instrument treats the writes of one
\* call alike
SetAAndB ==
    /\ calls < MaxCalls
    /\ \E a \in ABLevels : \E b \in ABLevels :
       \E wa \in ABWidths : \E wb \in ABWidths : \E o \in Outcomes :
          Return([set_a_and_b(Ctx(<<o, o, o, o>>), a, b, wa, wb) EXCEPT !.ret = None],
                 "set_a_and_b", "dyncc", 4, None,
                 [t |-> "args", v |-> <<a, b, wa, wb>>])

\* _com.ese(), _com.ese(reg_value) and the like of sre, rcl and sav
RegisterCall ==
    /\ calls < MaxCalls
    /\ \E r \in DOMAIN CommonRegisters :
       \E reg_value \in RegisterCandidates(r) \cup {None} :
       \E o \in Outcomes :
          Return(Common_register(Ctx(<<o>>), r, reg_value),
                 "register", r, IF reg_value = None THEN 0 ELSE 1,
                 None, reg_value)

\* a command line as a call records it
Cmd(command) == [t |-> "cmd", v |-> command]

\* the accessor whose write header a command line starts with, "" if none
Addressed(command) ==
    LET as == {a \in AccessorNames : Lit(Accessors[a].write) = command[1]
                                          /\ ~Accessors[a].indexed}
    IN  IF as = {} THEN "" ELSE CHOOSE a \in as : TRUE

\* the dict and the key of the slot a command line addresses
AddressedDict(command) ==
    IF Addressed(command) = "" THEN "none" ELSE Accessors[Addressed(command)].dict
AddressedKey(command) ==
    IF Addressed(command) = "" THEN "none" ELSE Accessors[Addressed(command)].key

\* dev.write(command)
RawWrite ==
    /\ calls < MaxCalls
    /\ \E command \in RawWrites : \E o \in Outcomes :
          Return([Device_write(Ctx(<<o>>), command, AddressedDict(command),
                              AddressedKey(command)) EXCEPT !.ret = None],
                 "raw_write", "device", 1, None, Cmd(command))

\* dev.query(command)
RawQuery ==
    /\ calls < MaxCalls
    /\ \E command \in RawQueries :
          Return(Device_query(Ctx(<<>>), command),
                 "raw_query", "device", 1, None, Cmd(command))

Next ==
    Get \/ Set \/ Enable \/ On \/ Off \/ SetAAndB \/ RegisterCall
        \/ RawWrite \/ RawQuery

Spec == Init /\ [][Next]_vars

\* a variant in which every mode keeps an input section of its own
values_apart(m) == [input |-> m, mode |-> m]

\* self.values = {'input': global_input_values, 'mode': self._mode_xx} of
\* mode m: the two dicts it refers to, "input" being global_input_values
values(m) == [input |-> "input", mode |-> m]

\* the dict a reference stands for
Deref(g, mir, dict) == IF dict = "input" THEN g ELSE mir[dict]

-----------------------------------------------------------------------------
(* Construction *)

\* the keys of each mirror in the order its dict display lists them
PopulateOrder(m) ==
    CASE m = "cc" -> <<"level", "current_range", "slew_pos", "slew_neg">>
      [] m \in {"cv", "cp", "cr"} -> <<"level">>
      [] m = "led" -> <<"rco">>
      [] m = "dyncc" -> <<"pulse_mode", "a_level", "b_level", "a_width", "b_width">>
      [] m \in {"dyncv", "dyncp"} -> <<"pulse_mode">>
      [] m = "dyncr" -> <<"enable", "pulse_mode">>
      [] m = "list" -> <<"enable", "level", "count", "slew">>
      [] m = "bat" -> <<"enable", "batt_mode", "level">>
      [] m = "ocp" -> <<"enable", "step_delay">>
      [] m = "opp" -> <<"enable">>
      [] m = "prog" -> <<"enable", "step_mode", "level", "time_on">>

\* the query the dict display sends for a key
PopulationQuery(m, key) ==
    IF key \in DOMAIN Populate(m)
    THEN <<Lit(Populate(m)[key])>>
    ELSE <<Lit(PopulateIndexed(m)[key]), Lit(" "), Val(PyInt(1))>>

\* str.split(sep): the pieces of s between the occurrences of sep
RECURSIVE split(_, _)
split(s, sep) ==
    IF \A i \in 1..Len(s) : s[i] # sep THEN <<s>>
    ELSE LET i == CHOOSE i \in 1..Len(s) :
                      s[i] = sep /\ \A j \in 1..(i - 1) : s[j] # sep
         IN  <<SubSeq(s, 1, i - 1)>> \o split(SubSeq(s, i + 1, Len(s)), sep)

\* x in y for a str x and a tuple of str y: x is one of the elements
in_tuple(x, y) == \E i \in 1..Len(y) : y[i] = x

SDL1020X == <<"S", "D", "L", "1", "0", "2", "0", "X">>
SDL1020X_E == <<"S", "D", "L", "1", "0", "2", "0", "X", "-", "E">>
SDL1030X == <<"S", "D", "L", "1", "0", "3", "0", "X">>
SDL1030X_E == <<"S", "D", "L", "1", "0", "3", "0", "X", "-", "E">>

\* the answer to '*IDN?': manufacturer,model,serial,firmware
Idn(model) ==
    [k |-> "idn",
     text |-> <<"S", "i", "g", "l", "e", "n", "t", " ", "T", "e", "c", "h", "n", "o", "l", "o", "g", "i", "e", "s">>
              \o <<",">> \o model \o
              <<",", "S", "D", "L", "1", "3", "G", "C", "Q", "1", "D", "0", "0", "0", "1", ",", "1", ".", "1", ".", "1", ".", "2", "1">>]

Models == {SDL1020X, SDL1020X_E, SDL1030X, SDL1030X_E}

\* a variant that knows one high power model
ValidateInput_init_one_model(ctx) ==
    LET c == bus_query(ctx, <<Lit("*IDN?")>>)
        model == split(c.wire[Len(c.wire)].resp.text, ",")[2]
        high_power_models == <<SDL1030X>>
    IN  [c EXCEPT !.high_power = in_tuple(model, high_power_models)]

\* ValidateInput.__init__
ValidateInput_init(ctx) ==
    LET c == bus_query(ctx, <<Lit("*IDN?")>>)
        model == split(c.wire[Len(c.wire)].resp.text, ",")[2]
        high_power_models == <<SDL1030X_E, SDL1030X>>
    IN  [c EXCEPT !.high_power = in_tuple(model, high_power_models)]

\* global_input_values[key] = self.<accessor>() of an accessor called with
\* no candidate: read_write returns self._bus.query(query), as Command.read
\* does
Ask(ctx, key, query) ==
    [ctx EXCEPT !.wire = Append(@, [op |-> "query", cmd |-> query,
                                    resp |-> Respond(ctx.inst, query)]),
                !.giv = Put(@, key, Respond(ctx.inst, query))]

\* a variant that does not ask for the short
Input_init_no_short(ctx) ==
    Ask(ValidateInput_init(ctx), "input_on", <<Lit(":INP?")>>)

\* Input.__init__
Input_init(ctx) ==
    Ask(Ask(ValidateInput_init(ctx), "input_on", <<Lit(":INP?")>>),
        "short_on", <<Lit(":SHOR?")>>)

\* a variant that asks for the active function and selects none
ModeStatic_init_asking(ctx) ==
    Ask(Input_init(ctx), "mode", <<Lit(":FUNC?")>>)

\* ModeStatic.__init__
ModeStatic_init(ctx) ==
    CHOOSE r \in {ModeStatic_mode(c, PyStr(CURR)) : c \in {Input_init(ctx)}} : TRUE

\* ModeDynamic.__init__: global_input_values['mode'] = self._mode()
ModeDynamic_init(ctx) == Ask(Input_init(ctx), "mode", <<Lit(":FUNC:TRAN?")>>)

EmptyDict == [key \in {} |-> None]

\* self._mode_xx = {key: self.<accessor>(), ...}: every accessor sends its
\* query, in the order of the dict display, and the dict holds the answers
Fill(ctx, m) ==
    LET keys == PopulateOrder(m)
    IN  [ctx EXCEPT
           !.wire = @ \o [i \in 1..Len(keys) |->
                            [op |-> "query", cmd |-> PopulationQuery(m, keys[i]),
                             resp |-> Respond(ctx.inst, PopulationQuery(m, keys[i]))]],
           !.mirror[m] = [key \in {keys[i] : i \in 1..Len(keys)} |->
                            Respond(ctx.inst, PopulationQuery(m, key))]]

\* Mode<X>.__init__ up to self.values: the parent's __init__, the mode's own
\* validator where it makes one, the mirror
Mode_init(ctx, m) ==
    CHOOSE r \in
      { Fill(c, m) : c \in
        { IF m \in {"cc", "cv", "cp", "cr"} THEN ModeStatic_init(ctx)
          ELSE IF m \in DynamicModes THEN ModeDynamic_init(ctx)
          ELSE ValidateInput_init(Input_init(ctx)) } } : TRUE

\* self.dyn of ModeCC, ModeCV, ModeCP and ModeCR
DynOf(m) == "dyn" \o m

\* Mode<X>(bus)
Mode_new(ctx, m) ==
    CHOOSE r \in
      { IF m \in {"cc", "cv", "cp", "cr"} THEN Mode_init(c, DynOf(m)) ELSE c :
          c \in {Mode_init(ctx, m)} } : TRUE

\* Mode<X>(bus) for each X of ms in turn, each starting from what the one
\* before it left
RECURSIVE New(_, _)
New(ctx, ms) ==
    IF ms = <<>> THEN ctx
    ELSE CHOOSE r \in {New(c, Tail(ms)) : c \in {Mode_new(ctx, Head(ms))}} : TRUE

\* ModeTestFunctions.__init__
ModeTestFunctions_init(ctx) ==
    CHOOSE r \in {New(c, <<"led", "bat", "list", "ocp", "opp", "prog">>) :
                     c \in {Input_init(ctx)}} : TRUE

\* System.__init__
System_init(ctx) ==
    read(read(ValidateInput_init(ctx), <<Lit(":SYST:SENS?")>>),
         <<Lit(":STOP:ON:FAIL?")>>)

\* Device.__init__: Common and Measure send nothing
Device_init(ctx) ==
    CHOOSE r \in
      { New(c2, <<"cc", "cv", "cp", "cr">>) : c2 \in
      { System_init(c1) : c1 \in {ModeTestFunctions_init(ctx)} } } : TRUE

\* What an instrument may hold when a session opens: its model, and what
\* earlier sessions left as active function, input state and short state.
Instruments ==
    LET func == {EmptyDict} \cup
                { <<Lit(":FUNC?")>> :> Stored(<<Lit(":FUNC"), Lit(" "), Val(PyStr(f))>>) :
                    f \in {CURR, VOLT, POW, RES, LED} }
        inp == {EmptyDict,
                <<Lit(":INP?")>> :> Stored(<<Lit(":INP"), Lit(" "), Val(PyStr(ON))>>)}
        shor == {EmptyDict,
                 <<Lit(":SHOR?")>> :> Stored(<<Lit(":SHOR"), Lit(" "), Val(PyStr(ON))>>)}
    IN  { (<<Lit("*IDN?")>> :> Idn(model)) @@ f @@ i @@ sh :
            model \in Models, f \in func, i \in inp, sh \in shor }

\* The module is imported and the transport is open; nothing is constructed.
InitNew ==
    /\ inst \in Instruments
    /\ high_power = FALSE
    /\ global_input_values = EmptyDict
    /\ mirror = [m \in ModeNames |-> EmptyDict]
    /\ wire = <<>>
    /\ call = NoCall
    /\ prev = [op |-> "none", who |-> ""]
    /\ calls = 0
    /\ threads = <<>>
    /\ second = NoSecond

\* the constructor returns: its effects become the state
Built(c, op, who) ==
    /\ inst' = c.inst
    /\ high_power' = c.high_power
    /\ global_input_values' = c.giv
    /\ mirror' = c.mirror
    /\ wire' = c.wire
    /\ call' = [NoCall EXCEPT !.op = op, !.who = who]
    /\ prev' = [op |-> call.op, who |-> call.who]
    /\ calls' = calls + 1
    /\ UNCHANGED <<threads, second>>

\* Mode<X>(bus)
NewMode ==
    /\ calls = 0
    /\ \E m \in ModeNames : \E o \in Outcomes :
          Built(Mode_new(Ctx(<<o>>), m), "new", m)

\* Device(visa_addr)
NewDevice ==
    /\ calls = 0
    /\ \E o1 \in Outcomes : \E o2 \in Outcomes :
       \E o3 \in Outcomes : \E o4 \in Outcomes :
          Built(Device_init(Ctx(<<o1, o2, o3, o4>>)), "new", "device")

\* the power levels tried on a new ModeCP: the ends of both ranges and
\* their neighbours
PowerCandidates ==
    NumberCandidates("power", TRUE) \cup NumberCandidates("power", FALSE)

\* cp = ModeCP(bus) and then cp.level(value)
PowerLevel ==
    /\ calls = 1
    /\ call.op = "new" /\ call.who = "cp"
    /\ \E value \in PowerCandidates : \E o \in Outcomes :
       \E c \in {accessor(Ctx(<<o>>), "cp_level", PyInt(1), value)} :
          Return(c, "set", "cp_level", 1, PyInt(1), value)

NextNew == NewMode \/ NewDevice \/ PowerLevel

SpecNew == InitNew /\ [][NextNew]_vars

-----------------------------------------------------------------------------
(* Callers in threads.  read_write takes no lock: between the statements of
   one caller's set the other caller may run.  wire holds here what all
   callers put on the transport since construction, in order. *)

\* the accessors and the candidates the callers are tried with
SharedAccessors == {"cc_level", "cp_level"}
SharedCandidates(a) ==
    IF a = "cc_level" THEN {PyInt(1), PyInt(2), PyInt(31)}
    ELSE {PyInt(1), PyList}

\* a caller outside read_write
Idle == [pc |-> "idle", a |-> "", value |-> None, val |-> None,
         line |-> <<>>, sent |-> 0, asked |-> 0, resp |-> None]

\* the context a statement of a caller runs in
Run(oc) == [Ctx(oc) EXCEPT !.wire = wire]

\* write = write + ' ' + str(value); self._bus.write(write)
write_step(ctx, a, value) ==
    bus_write(ctx, WriteText(a, PyInt(1)) \o <<Lit(" "), Val(value)>>)

\* self._bus.query(query), the right-hand side of the assignment
query_step(ctx, a) == bus_query(ctx, QueryText(a, PyInt(1)))

\* a variant that keeps the line it sent
store_step_assumed(ctx, a, resp, line) ==
    Store(ctx, Accessors[a].dict, Accessors[a].key, Stored(line))

\* value_dict[value_key] = <the answer>
store_step(ctx, a, resp, line) ==
    Store(ctx, Accessors[a].dict, Accessors[a].key, resp)

InitTwo ==
    /\ Constructed
    /\ threads \in {[t \in 1..n |-> Idle] : n \in {1, 2}}

\* a caller calls <accessor>(value): read_write runs val = validator(value);
\* a refused candidate ends the call
Begin ==
    \E t \in DOMAIN threads :
    /\ threads[t].pc \in {"idle", "done"}
    /\ calls < MaxCalls
    /\ \E a \in SharedAccessors : \E value \in SharedCandidates(a) :
          LET c == Validate(Run(<<>>), Accessors[a].rule, value)
          IN  /\ threads' = [threads EXCEPT ![t] =
                     [Idle EXCEPT !.pc = IF c.val.res = "ok" THEN "write" ELSE "done",
                                  !.a = a, !.value = value, !.val = c.val]]
              /\ wire' = c.wire
    /\ calls' = calls + 1
    /\ UNCHANGED <<inst, high_power, global_input_values, mirror, call, prev, second>>

\* a caller sends its write
Send ==
    \E t \in DOMAIN threads :
    /\ threads[t].pc = "write"
    /\ \E o \in Outcomes :
          LET c == write_step(Run(<<o>>), threads[t].a, threads[t].value)
          IN  /\ inst' = c.inst
              /\ wire' = c.wire
              /\ threads' = [threads EXCEPT ![t].pc = "query",
                                            ![t].line = c.wire[Len(c.wire)].cmd,
                                            ![t].sent = Len(c.wire)]
    /\ UNCHANGED <<high_power, global_input_values, mirror, call, prev, calls, second>>

\* a caller sends its query and has the answer
Reconfirm ==
    \E t \in DOMAIN threads :
    /\ threads[t].pc = "query"
    /\ LET c == query_step(Run(<<>>), threads[t].a)
       IN  /\ wire' = c.wire
           /\ threads' = [threads EXCEPT ![t].pc = "store",
                                         ![t].asked = Len(c.wire),
                                         ![t].resp = Answer(c)]
    /\ UNCHANGED <<inst, high_power, global_input_values, mirror, call, prev, calls, second>>

\* a caller stores the answer and returns
Keep ==
    \E t \in DOMAIN threads :
    /\ threads[t].pc = "store"
    /\ LET c == store_step(Run(<<>>), threads[t].a, threads[t].resp, threads[t].line)
       IN  /\ global_input_values' = c.giv
           /\ mirror' = c.mirror
    /\ threads' = [threads EXCEPT ![t].pc = "done"]
    /\ UNCHANGED <<inst, high_power, wire, call, prev, calls, second>>

NextTwo == Begin \/ Send \/ Reconfirm \/ Keep

SpecTwo == InitTwo /\ [][NextTwo]_vars

-----------------------------------------------------------------------------
(* Two Devices in one process.  Device 1 is the Device of inst, mirror and
   high_power; Device 2 is held in second.  global_input_values is a name of
   the module: there is one for the process. *)

\* a variant in which the objects of the second Device have a mapping of
\* their own
input_values_per_device(d) == IF d = 1 THEN "global" ELSE "own"

\* the mapping that Input.__init__, input_control, _short, _mode and
\* enable() of the objects of Device d store into, and that
\* values['input'] of its modes refers to: the module's global_input_values
input_values_of(d) == "global"

\* the mapping behind values['input'] of the modes of Device d
InputSeen(g, sec, d) ==
    IF input_values_of(d) = "global" THEN g ELSE sec.giv

\* the instruments the two Devices are opened on
FirstInstruments ==
    {i \in Instruments : /\ i[<<Lit("*IDN?")>>] = Idn(SDL1020X_E)
                         /\ <<Lit(":FUNC?")>> \notin DOMAIN i}
SecondInstruments ==
    {i \in Instruments : /\ i[<<Lit("*IDN?")>>] = Idn(SDL1030X)
                         /\ <<Lit(":FUNC?")>> \notin DOMAIN i}

\* the module is imported; two transports can be opened
InitSessions ==
    /\ inst \in FirstInstruments
    /\ high_power = FALSE
    /\ global_input_values = EmptyDict
    /\ mirror = [m \in ModeNames |-> EmptyDict]
    /\ wire = <<>>
    /\ call = NoCall
    /\ prev = [op |-> "none", who |-> ""]
    /\ calls = 0
    /\ threads = <<>>
    /\ second \in {[built |-> FALSE, inst |-> i, high_power |-> FALSE,
                     mirror |-> [m \in ModeNames |-> EmptyDict],
                     giv |-> EmptyDict] : i \in SecondInstruments}

\* the context a call on Device d starts in
CtxOf(d, oc) ==
    IF d = 1 THEN Ctx(oc)
    ELSE [inst |-> second.inst,
          giv |-> InputSeen(global_input_values, second, 2),
          mirror |-> second.mirror, high_power |-> second.high_power,
          wire |-> <<>>, val |-> None, ret |-> None, exc |-> "none",
          diag |-> 0, oc |-> oc]

\* a call on Device d returns: its effects become the state
ReturnOf(d, c, op, value) ==
    /\ IF d = 1
       THEN /\ inst' = c.inst
            /\ high_power' = c.high_power
            /\ mirror' = c.mirror
            /\ global_input_values' = c.giv
            /\ UNCHANGED second
       ELSE /\ second' = [built |-> TRUE, inst |-> c.inst,
                          high_power |-> c.high_power, mirror |-> c.mirror,
                          giv |-> IF input_values_of(2) = "global"
                                  THEN second.giv ELSE c.giv]
            /\ global_input_values' =
                   IF input_values_of(2) = "global" THEN c.giv
                   ELSE global_input_values
            /\ UNCHANGED <<inst, high_power, mirror>>
    /\ wire' = c.wire
    /\ call' = [op |-> op, who |-> IF d = 1 THEN "first" ELSE "second",
                args |-> 0, step |-> None, value |-> value,
                val |-> c.val, ret |-> c.ret, exc |-> c.exc, diag |-> c.diag]
    /\ prev' = [op |-> call.op, who |-> call.who]
    /\ calls' = calls + 1
    /\ UNCHANGED threads

Devices == {1, 2}

\* Device d has been constructed
Made(d) == IF d = 1 THEN calls >= 1 ELSE second.built

\* the values the input is set to
InputCandidates == {PyStr(ON), PyStr(OFF), PyInt(2)}

\* the modes enabled through a Device
SessionModes == {"cv", "list"}

\* a mode as a call records it
ModeArg(m) == [t |-> "mode", m |-> m]

\* dev = Device(visa_addr): the first Device, and after it the second; the
\* instrument treats the writes of one construction alike
NewDeviceOf ==
    \E d \in Devices :
    /\ ~Made(d)
    /\ d = 2 => Made(1)
    /\ calls <= MaxCalls
    /\ \E o \in Outcomes : \E ctx \in {CtxOf(d, <<o, o, o, o>>)} :
       \E c \in {Device_init(ctx)} :
          ReturnOf(d, [c EXCEPT !.val = None, !.ret = None], "new", None)

\* dev.<mode>.input_control(value) of either Device
InputControlOf ==
    \E d \in Devices :
    /\ Made(d)
    /\ calls <= MaxCalls
    /\ \E value \in InputCandidates : \E o \in Outcomes :
       \E ctx \in {CtxOf(d, <<o>>)} : \E c \in {input_control(ctx, value)} :
          ReturnOf(d, c, "set", value)

\* dev.<mode>.enable() of either Device
EnableOf ==
    \E d \in Devices :
    /\ Made(d)
    /\ calls <= MaxCalls
    /\ \E m \in SessionModes : \E o \in Outcomes :
       \E ctx \in {CtxOf(d, <<o>>)} : \E c \in {enable(ctx, m)} :
          ReturnOf(d, [c EXCEPT !.ret = None], "enable", ModeArg(m))

NextSessions == NewDeviceOf \/ InputControlOf \/ EnableOf

SpecSessions == InitSessions /\ [][NextSessions]_vars

-----------------------------------------------------------------------------
(* Vocabulary of the properties *)

Absent == [k |-> "absent"]

\* dict.get(key) of the shared input mirror g or of a mode mirror of mir
Slot(g, mir, dict, key) ==
    LET d == IF dict = "input" THEN g ELSE mir[dict]
    IN  IF key \in DOMAIN d THEN d[key] ELSE Absent

\* the slot accessor a stores into
TargetSlot(g, mir, a) == Slot(g, mir, Accessors[a].dict, Accessors[a].key)

IsSet(c) == c.op = "set"
RuleOf(c) == Accessors[c.who].rule
Rejected(c) == "res" \in DOMAIN c.val /\ c.val.res \in {"ValueError", "TypeError"}
Passed(c) == "res" \in DOMAIN c.val /\ c.val.res = "ok"
Numeric(v) == v.t \in {"int", "float"}

\* the line an accepted set of call c puts on the wire, and its query
SetLine(c) == WriteText(c.who, c.step) \o <<Lit(" "), Val(c.value)>>
QueryLine(c) == QueryText(c.who, c.step)

\* the last call was an accepted accessor set that wrote once and then
\* stored the answer of its own query
WroteAndConfirmed(c, w, g, mir) ==
    /\ Len(Writes(w)) = 1
    /\ Len(w) >= 2
    /\ w[Len(w) - 1] = [op |-> "write", cmd |-> SetLine(c)]
    /\ w[Len(w)].op = "query"
    /\ w[Len(w)].cmd = QueryLine(c)
    /\ TargetSlot(g, mir, c.who) = w[Len(w)].resp

-----------------------------------------------------------------------------
(* The dispatcher *)

\* C1: a set whose candidate the rule refuses (a value outside the range or
\* the set, or a value of the wrong type) sends no write, leaves the slot the
\* accessor stores into as it was before the call, prints one warning and
\* returns None without raising.
C1_RejectedSetIsSilent ==
    [][ (IsSet(call') /\ Rejected(call')) =>
            /\ Writes(wire') = <<>>
            /\ TargetSlot(global_input_values', mirror', call'.who)
                 = TargetSlot(global_input_values, mirror, call'.who)
            /\ call'.diag = 1
            /\ call'.ret = None
            /\ call'.exc = "none" ]_vars

\* a refused set made after a call that had changed the instrument
C1_Witness ==
    /\ IsSet(call) /\ Rejected(call)
    /\ call.val = ValueError
    /\ inst # (<<Lit(":FUNC?")>> :>
                   Stored(<<Lit(":FUNC"), Lit(" "), Val(PyStr(CURR))>>))
    /\ wire = <<>>

\* C2: a set whose candidate passes its rule sends exactly one write, then
\* the accessor's own query, and the slot holds the answer to that query,
\* whatever the instrument made of the write.
C2_AcceptedSetConfirms ==
    (IsSet(call) /\ Passed(call)) =>
        WroteAndConfirmed(call, wire, global_input_values, mirror)

\* an accepted set the instrument clamped: the slot holds the clamped answer,
\* not what was sent
C2_Witness ==
    /\ IsSet(call) /\ Passed(call)
    /\ TargetSlot(global_input_values, mirror, call.who) = Clamped(QueryLine(call))
    /\ Len(wire) = 2

-----------------------------------------------------------------------------
(* What may change a mirror slot *)

MirrorNames == ModeNames \cup {"input"}

KeysOf(g, mir, dict) == DOMAIN (IF dict = "input" THEN g ELSE mir[dict])

\* cmd is a query of the parameter kept in dict[key]
QueryOfSlot(dict, key, cmd) ==
    \/ \E a \in AccessorNames :
          /\ Accessors[a].dict = dict
          /\ Accessors[a].key = key
          /\ cmd[1] = Lit(Accessors[a].query)
    \/ dict = "bat" /\ key = "enable" /\ cmd = <<Lit(":BATT:FUNC?")>>
    \/ dict = "input" /\ key = "mode"
          /\ cmd \in {<<Lit(":FUNC?")>>, <<Lit(":FUNC:TRAN?")>>}

\* v is the answer to a query of dict[key] that w shows after a write
AnswerAfterWrite(w, dict, key, v) ==
    \E i \in DOMAIN w : \E j \in DOMAIN w :
        /\ i < j
        /\ w[i].op = "write"
        /\ w[j].op = "query"
        /\ QueryOfSlot(dict, key, w[j].cmd)
        /\ w[j].resp = v

\* v is a str the program made up: a literal, or a prefix put before an answer
MadeUp(v) == "k" \in DOMAIN v /\ v.k \in {"lit", "cat"}

\* C3 as stated: a slot of a mode mirror or of the shared input mirror only
\* ever changes to the answer of a query of that parameter issued after a
\* write of the same call; nothing stores a literal, enable() included.
C3_OnlyConfirmedValues ==
    [][ \A d \in MirrorNames :
        \A k \in KeysOf(global_input_values', mirror', d) :
            Slot(global_input_values', mirror', d, k)
                # Slot(global_input_values, mirror, d, k)
            => AnswerAfterWrite(wire', d, k,
                                Slot(global_input_values', mirror', d, k)) ]_vars

\* C3 amended: every slot but the shared 'mode' entry only ever changes to
\* the answer of a query of that parameter issued after a write of the same
\* call; a refused set changes no slot; the 'mode' entry changes in enable()
\* and on() only, to a literal or to a prefix put before an answer.
C3_ConfirmedExceptMode ==
    [][ /\ \A d \in MirrorNames :
           \A k \in KeysOf(global_input_values', mirror', d) :
              Slot(global_input_values', mirror', d, k)
                  # Slot(global_input_values, mirror, d, k)
              => IF d = "input" /\ k = "mode"
                 THEN /\ call'.op \in {"enable", "on"}
                      /\ MadeUp(global_input_values'.mode)
                 ELSE AnswerAfterWrite(wire', d, k,
                                Slot(global_input_values', mirror', d, k))
        /\ (IsSet(call') /\ Rejected(call'))
              => /\ global_input_values' = global_input_values
                 /\ mirror' = mirror ]_vars

\* battery enable(): the 'enable' slot holds the answer asked for after the
\* write, the 'mode' entry a literal
C3_Witness ==
    /\ call.op = "enable" /\ call.who = "bat"
    /\ mirror.bat.enable = Stored(<<Lit(":BATT:FUNC")>>)
    /\ global_input_values.mode = Literal("BATTERY")

-----------------------------------------------------------------------------
(* enable() and on() *)

\* the write that selects the function of mode m
FunctionSelect(m) ==
    CASE m \in StaticModes ->
            <<Lit(":FUNC"), Lit(" "), Val(PyStr(FunctionOf(m)))>>
      [] m \in DynamicModes ->
            <<Lit(":FUNC:TRAN"), Lit(" "), Val(PyStr(FunctionOf(m)))>>
      [] m = "list" -> <<Lit(":LIST:STAT:ON")>>
      [] m = "bat" -> <<Lit(":BATT:FUNC")>>
      [] m = "ocp" -> <<Lit(":OCP:FUNC")>>
      [] m = "opp" -> <<Lit(":OPP:FUNC")>>
      [] m = "prog" -> <<Lit(":PROG:STAT:ON")>>

\* the write that switches the input on
InputOn == <<Lit(":INP"), Lit(" "), Val(PyStr(ON))>>

WriteOf(text) == [op |-> "write", cmd |-> text]

\* C4: on() of any mode sends exactly two writes, the mode's function-select
\* write and then the input-on write.
C4_OnSelectsThenSwitchesOn ==
    call.op = "on" =>
        Writes(wire) = <<WriteOf(FunctionSelect(call.who)), WriteOf(InputOn)>>

\* on() of the program mode, both writes taken by the instrument
C4_Witness ==
    /\ call.op = "on" /\ call.who = "prog"
    /\ Len(Writes(wire)) = 2
    /\ global_input_values.input_on = Stored(InputOn)
    /\ global_input_values.mode = Literal("Program")

\* C5 as stated: enable() and then on() of the same mode send two writes
\* between them, the function-select write and then the input-on write.
C5_EnableThenOnTwoWrites ==
    [][ (call.op = "enable" /\ call'.op = "on" /\ call'.who = call.who) =>
            Writes(wire) \o Writes(wire')
                = <<WriteOf(FunctionSelect(call.who)), WriteOf(InputOn)>> ]_vars

\* C5 amended: enable() and then on() of the same mode send three writes
\* between them: the function-select write twice, then the input-on write.
C5_EnableThenOnThreeWrites ==
    [][ (call.op = "enable" /\ call'.op = "on" /\ call'.who = call.who) =>
            Writes(wire) \o Writes(wire')
                = <<WriteOf(FunctionSelect(call.who)),
                    WriteOf(FunctionSelect(call.who)),
                    WriteOf(InputOn)>> ]_vars

\* on() made right after enable() of the same mode
C5_Witness ==
    /\ prev.op = "enable" /\ call.op = "on" /\ prev.who = call.who
    /\ Writes(wire)[1] = WriteOf(FunctionSelect(prev.who))

-----------------------------------------------------------------------------
(* Range rules *)

RangeRules == FloatRules \cup IntRangeRules

\* the least and greatest value a range rule declares, in units
RangeMin(rule, hp) ==
    IF rule \in FloatRules THEN DeclaredRange(rule, hp)[1]
    ELSE DeclaredIntRange(rule)[1] * Unit

RangeMax(rule, hp) ==
    IF rule \in FloatRules THEN DeclaredRange(rule, hp)[2]
    ELSE DeclaredIntRange(rule)[2] * Unit

\* the candidate as the rule compares it: a float rule rounds it first
Compared(rule, v, hp) ==
    IF rule \in FloatRules
    THEN round(float_of(v), DeclaredRange(rule, hp)[3])
    ELSE float_of(v)

OutOfRange(rule, v, hp) ==
    float_of(v) < RangeMin(rule, hp) \/ float_of(v) > RangeMax(rule, hp)

OutOfRangeRounded(rule, v, hp) ==
    Compared(rule, v, hp) < RangeMin(rule, hp)
        \/ Compared(rule, v, hp) > RangeMax(rule, hp)

\* the set of call c sent nothing and left its slot as it was
NoWriteNoChange(c, w, g, mir, g2, mir2) ==
    /\ Writes(w) = <<>>
    /\ TargetSlot(g2, mir2, c.who) = TargetSlot(g, mir, c.who)

-----------------------------------------------------------------------------
(* Exceptions *)

\* C7 as stated: a set call of any accessor with any candidate returns
\* normally; no validation or type error reaches the caller.
C7_SetNeverRaises ==
    IsSet(call) => call.exc = "none"

-----------------------------------------------------------------------------
(* Token rules *)

TakesTokens(rule) == Len(DeclaredTokens(rule)) > 0

\* the short form of a token: its leading capitals (CURR of CURRent)
ShortForm(token) ==
    SelectSeq(token, LAMBDA ch : ch \in DOMAIN ToLower)

\* s is one of the tokens, or the short form of one, in any case
MatchesToken(s, tokens) ==
    \E i \in 1..Len(tokens) :
        lower(s) = lower(tokens[i]) \/ lower(s) = lower(ShortForm(tokens[i]))

\* C8 as stated: a rule with tokens accepts a string only if it is one of
\* the tokens in some case; any other string (the empty string, a fragment
\* of a token, text that spans two tokens) is refused and nothing is written.
C8_OnlyTokensAccepted ==
    (IsSet(call) /\ call.value.t = "str" /\ TakesTokens(RuleOf(call))) =>
        /\ Passed(call) => MatchesToken(call.value.s, DeclaredTokens(RuleOf(call)))
        /\ ~MatchesToken(call.value.s, DeclaredTokens(RuleOf(call)))
              => Writes(wire) = <<>>

\* the spellings of s that differ in case only: all capitals, no capitals,
\* a leading capital, and the spelling the rule declares
CaseVariants(s, tokens) ==
    {s, upper(s), lower(s),
     [i \in 1..Len(s) |-> IF i = 1 THEN upper_char(s[i]) ELSE lower_char(s[i])]}
    \cup {tokens[i] : i \in {j \in 1..Len(tokens) : lower(tokens[j]) = lower(s)}}

\* C9: a rule with tokens gives the same verdict on every spelling of a
\* string that differs in case only, and what it accepts it returns in
\* capitals.
C9_CaseInsensitive ==
    (IsSet(call) /\ call.value.t = "str" /\ TakesTokens(RuleOf(call))) =>
        /\ \A s \in CaseVariants(call.value.s, DeclaredTokens(RuleOf(call))) :
              Validator(RuleOf(call), PyStr(s), high_power) = call.val
        /\ Passed(call) => call.val.out = PyStr(upper(call.value.s))

\* 'continuous' typed without capitals is accepted as CONTINUOUS
C9_Witness ==
    /\ IsSet(call) /\ RuleOf(call) = "mode_transient"
    /\ call.value = PyStr(lower(DeclaredTokens("mode_transient")[1]))
    /\ call.val = Accepted(PyStr(upper(DeclaredTokens("mode_transient")[1])))
    /\ Len(Writes(wire)) = 1

-----------------------------------------------------------------------------
(* The ends of a range *)

\* v is the least or the greatest value the rule declares
AtEndpoint(rule, v, hp) ==
    /\ rule \in IntRangeRules => v.t = "int"
    /\ float_of(v) \in {RangeMin(rule, hp), RangeMax(rule, hp)}

\* C10 as stated: a numeric candidate equal to the minimum or the maximum
\* of a range rule is accepted: the write is sent and the slot holds the
\* answer of the query that follows it.
C10_EndpointsAccepted ==
    (/\ IsSet(call)
     /\ RuleOf(call) \in RangeRules
     /\ Numeric(call.value)
     /\ AtEndpoint(RuleOf(call), call.value, high_power))
    => /\ Passed(call)
       /\ WroteAndConfirmed(call, wire, global_input_values, mirror)

-----------------------------------------------------------------------------
(* Gets *)

\* C11: an accessor called without a candidate sends its one query and no
\* write, returns the answer as it came, and leaves the shared input mirror
\* and every mode mirror as they were.
C11_GetIsPure ==
    [][ call'.op = "get" =>
            /\ wire' = << [op |-> "query", cmd |-> QueryLine(call'),
                           resp |-> call'.ret] >>
            /\ global_input_values' = global_input_values
            /\ mirror' = mirror
            /\ call'.exc = "none" ]_vars

\* a get that returns what an earlier accepted set left in the instrument
C11_Witness ==
    /\ call.op = "get" /\ prev.op = "set"
    /\ "k" \in DOMAIN call.ret /\ call.ret.k = "set"
    /\ Len(wire) = 1

-----------------------------------------------------------------------------
(* set_a_and_b *)

IsSetAAndB(c) == c.op = "set_a_and_b"

\* the rule of the dynamic CC levels accepts v
LevelValid(v) == Validator("current", v, high_power).res = "ok"

\* C12: set_a_and_b with a valid a and an invalid b first writes and
\* reconfirms a_level, then refuses b: the mirror holds the reconfirmed
\* a_level and the b_level it held before the call, and no b_level write is
\* on the wire.
C12_AAppliedBRefused ==
    [][ (/\ IsSetAAndB(call')
         /\ LevelValid(call'.value.v[1])
         /\ ~LevelValid(call'.value.v[2]))
        => /\ Len(wire') >= 2
           /\ wire'[1] = WriteOf(<<Lit(":CURR:TRAN:ALEV"), Lit(" "),
                                   Val(call'.value.v[1])>>)
           /\ wire'[2].op = "query"
           /\ wire'[2].cmd = <<Lit(":CURR:TRAN:ALEV?")>>
           /\ mirror'.dyncc.a_level = wire'[2].resp
           /\ mirror'.dyncc.b_level = mirror.dyncc.b_level
           /\ \A i \in DOMAIN wire' :
                 wire'[i].op = "write" => wire'[i].cmd[1] # Lit(":CURR:TRAN:BLEV")
           /\ call'.diag >= 1 ]_vars

\* a is stored by the instrument and mirrored, b still holds what was
\* populated at construction
C12_Witness ==
    /\ IsSetAAndB(call)
    /\ LevelValid(call.value.v[1]) /\ ~LevelValid(call.value.v[2])
    /\ mirror.dyncc.a_level
         = Stored(<<Lit(":CURR:TRAN:ALEV"), Lit(" "), Val(call.value.v[1])>>)
    /\ mirror.dyncc.b_level = PowerOn(<<Lit(":CURR:TRAN:BLEV?")>>)

-----------------------------------------------------------------------------
(* Get or set by the arguments *)

IsAccessorCall(c) == c.op \in {"get", "set"}
Indexed(c) == Accessors[c.who].indexed

\* the call sent its one query and returned the answer
Queried(c, w) ==
    w = << [op |-> "query", cmd |-> QueryLine(c), resp |-> c.ret] >>

\* the call validated its candidate and, when the rule accepted it, wrote it
\* and stored the answer of the query that followed
ValidatedSet(c, w, g, mir) ==
    /\ c.op = "set"
    /\ c.val # None
    /\ Passed(c) => WroteAndConfirmed(c, w, g, mir)

\* C13 as stated: every accessor, the list and program ones included, called
\* with no argument gets, and called with exactly one argument performs a
\* validated set of that argument followed by a reconfirming query.
C13_OneArgumentSets ==
    IsAccessorCall(call)
    => /\ call.args = 0 => call.op = "get" /\ Queried(call, wire)
       /\ call.args = 1
            => ValidatedSet(call, wire, global_input_values, mirror)

\* C13: an accessor called with no argument gets.  An accessor without a step
\* parameter called with one argument performs a validated set of it,
\* reconfirmed by a query.  An accessor of a list or program step called with
\* one argument gets at the step the argument names; it performs the
\* validated set when called with two, the step and the candidate.
C13_ArgumentsBindInOrder ==
    IsAccessorCall(call)
    => /\ call.args = 0
            => call.op = "get" /\ call.step = PyInt(1) /\ Queried(call, wire)
       /\ (call.args = 1 /\ ~Indexed(call))
            => ValidatedSet(call, wire, global_input_values, mirror)
       /\ (call.args = 1 /\ Indexed(call))
            => call.op = "get" /\ Queried(call, wire)
       /\ call.args = 2
            => /\ Indexed(call)
               /\ ValidatedSet(call, wire, global_input_values, mirror)

\* a list or program accessor called with the one argument 2 has asked for
\* step 2 and written nothing
C13_Witness ==
    /\ call.op = "get" /\ call.args = 1 /\ Indexed(call)
    /\ call.step = PyInt(2)
    /\ Len(wire) = 1
    /\ wire[1].cmd = <<Lit(Accessors[call.who].query), Lit(" "), Val(PyInt(2))>>

-----------------------------------------------------------------------------
(* Level bounds by sub-mode *)

CURRENT == <<"C", "U", "R", "R", "E", "N", "T">>
VOLTAGE == <<"V", "O", "L", "T", "A", "G", "E">>
RESISTANCE == <<"R", "E", "S", "I", "S", "T", "A", "N", "C", "E">>
SubModes == {CURRENT, VOLTAGE, RESISTANCE}

\* the level bounds of a sub-mode, in units
SubModeBounds(sub) ==
    CASE sub = CURRENT -> <<0, 30 * Unit>>
      [] sub = VOLTAGE -> <<0, 150 * Unit>>
      [] sub = RESISTANCE -> <<3000, 10000 * Unit>>

\* the answer reports the sub-mode sub: the register holds what a set of
\* that sub-mode left there
NamesSubMode(resp, sub) ==
    /\ resp.k = "set"
    /\ "val" \in DOMAIN resp.by[Len(resp.by)]
    /\ resp.by[Len(resp.by)].val.t = "str"
    /\ upper(resp.by[Len(resp.by)].val.s) = sub

IsLevelSet(c) == IsSet(c) /\ RuleOf(c) \in LevelRules /\ Numeric(c.value)

\* the candidate of call c lies within the level bounds of sub
WithinSubMode(c, sub) ==
    LET x == round(float_of(c.value), 3)
    IN  SubModeBounds(sub)[1] <= x /\ x <= SubModeBounds(sub)[2]

\* C14: the bounds of a battery, list or program level follow the sub-mode
\* the validation has just queried: [0, 30] in current, [0, 150] in voltage,
\* [0.03, 10000] in resistance.  A level is accepted exactly when it lies
\* within the bounds of the sub-mode the instrument reported.
C14_LevelBoundsFollowSubMode ==
    IsLevelSet(call)
    => /\ Len(wire) >= 1
       /\ wire[1] = [op |-> "query", cmd |-> SubModeQuery(RuleOf(call)),
                     resp |-> wire[1].resp]
       /\ \A sub \in SubModes :
             NamesSubMode(wire[1].resp, sub)
             => (Passed(call) <=> WithinSubMode(call, sub))

-----------------------------------------------------------------------------
(* Construction: what it sends *)

IsNew(c) == c.op = "new"

FunctionRegister == <<Lit(":FUNC?")>>
SelectCURR == WriteOf(<<Lit(":FUNC"), Lit(" "), Val(PyStr(CURR))>>)

\* how many ModeStatic.__init__ the construction of who runs
StaticInits(who) ==
    IF who = "device" THEN 4 ELSE IF who \in {"cc", "cv", "cp", "cr"} THEN 1 ELSE 0

\* the registers of the instrument that one of the two states holds
Registers(i1, i2) == DOMAIN i1 \cup DOMAIN i2

\* C15 as stated: constructing a mode, or a Device, only queries: it sends no
\* write, and the instrument answers every query after the construction as
\* it did before, the active function included.
C15_ConstructionOnlyQueries ==
    [][ IsNew(call')
        => /\ Writes(wire') = <<>>
           /\ \A reg \in Registers(inst, inst') :
                 Respond(inst', reg) = Respond(inst, reg) ]_vars

\* C15: constructing ModeCC, ModeCV, ModeCP or ModeCR sends exactly one
\* write, ':FUNC CURR'; constructing a Device sends it four times; the
\* construction of every other mode sends no write.  No other write is sent,
\* so every setting but the active function is the same after construction
\* as before.
C15_ConstructionSelectsCC ==
    [][ IsNew(call')
        => /\ Len(Writes(wire')) = StaticInits(call'.who)
           /\ \A i \in 1..Len(Writes(wire')) : Writes(wire')[i] = SelectCURR
           /\ \A reg \in Registers(inst, inst') \ {FunctionRegister} :
                 Respond(inst', reg) = Respond(inst, reg)
           /\ StaticInits(call'.who) = 0 => inst' = inst ]_vars

\* a Device built on an instrument whose input an earlier session left on:
\* the four writes made CURR the active function, the input is still on
C15_Witness ==
    /\ IsNew(call) /\ call.who = "device"
    /\ Len(Writes(wire)) = 4
    /\ Respond(inst, FunctionRegister) = Stored(SelectCURR.cmd)
    /\ Respond(inst, <<Lit(":INP?")>>)
         = Stored(<<Lit(":INP"), Lit(" "), Val(PyStr(ON))>>)

\* C16: right after a construction every key of a constructed mirror holds
\* the instrument's answer to the query that the key's own accessor sends
\* when it is called without a candidate.
C16_MirrorHoldsOwnAnswers ==
    IsNew(call)
    => \A a \in AccessorNames :
          (/\ Accessors[a].dict \in ModeNames
           /\ Accessors[a].key \in DOMAIN mirror[Accessors[a].dict])
          => mirror[Accessors[a].dict][Accessors[a].key]
               = Respond(inst, QueryText(a, PyInt(1)))

-----------------------------------------------------------------------------
(* The active-function entry *)

IsEnable(c) == c.op \in {"enable", "on"}

\* the instrument i took the function-select write of mode m as it was sent
Selected(i, m) ==
    Respond(i, Register(FunctionSelect(m))) = Stored(FunctionSelect(m))

\* C17: after enable() (or on()) of a mode the shared 'mode' entry names that
\* mode: when the mode of one enable() differs from the mode of the enable()
\* before it, and the instrument took both selects, the entry differs from
\* the one the earlier enable() left.
C17_EntryNamesEnabledMode ==
    [][ (/\ IsEnable(call) /\ IsEnable(call')
         /\ call.who # call'.who
         /\ Selected(inst, call.who)
         /\ Selected(inst', call'.who))
        => global_input_values'.mode # global_input_values.mode ]_vars

-----------------------------------------------------------------------------
(* The keys of the mirrors *)

\* the keys the construction of mode m populates
ConstructedKeys(m) == DOMAIN Populate(m) \cup DOMAIN PopulateIndexed(m)

\* C18: the key set of every mode mirror is the one its construction
\* populated: no accessor call, enable(), on() or off() adds or removes a
\* key, so a set through an accessor lands on a key populated at
\* construction.
C18_KeySetStable ==
    \A m \in ModeNames : DOMAIN mirror[m] = ConstructedKeys(m)

-----------------------------------------------------------------------------
(* The values snapshot *)

-----------------------------------------------------------------------------
(* What an accepted set transmits *)

\* the text a piece of a line stands for: str() of a str is that str
TextOf(piece) ==
    IF "val" \in DOMAIN piece /\ piece.val.t = "strof"
    THEN Val(piece.val.v) ELSE piece

\* the validator's result of call c has another text than the candidate: a
\* token in another case, or a number the rule rounded before comparing
ResultDiffers(c) ==
    \/ c.value.t = "str" /\ c.val.out # c.value
    \/ /\ Numeric(c.value)
       /\ RuleOf(c) \in FloatRules
       /\ round(float_of(c.value), DeclaredRange(RuleOf(c), high_power)[3])
            # float_of(c.value)

\* C20: the write of an accepted set ends with str() of the caller's
\* candidate: a number goes out with all its digits even when the rule
\* rounded it, a token in the caller's spelling and case and not in the
\* upper-cased form the validator returned.
C20_SendsTheCandidate ==
    (IsAccessorCall(call) /\ IsSet(call) /\ Passed(call) /\ Writes(wire) # <<>>)
    => LET line == Writes(wire)[Len(Writes(wire))].cmd
       IN  /\ TextOf(line[Len(line)]) = TextOf(Val(call.value))
           /\ (call.value.t = "str" /\ call.val.out # call.value)
              => TextOf(line[Len(line)]) # TextOf(Val(call.val.out))

\* a token typed in lower case was accepted and written
C20_WitnessToken ==
    /\ IsAccessorCall(call) /\ IsSet(call) /\ Passed(call)
    /\ call.value.t = "str" /\ ResultDiffers(call)
    /\ Writes(wire) # <<>>

\* a number the rule rounded into its range was accepted and written
C20_WitnessNumber ==
    /\ IsAccessorCall(call) /\ IsSet(call) /\ Passed(call)
    /\ Numeric(call.value) /\ ResultDiffers(call)
    /\ Writes(wire) # <<>>

-----------------------------------------------------------------------------
(* What a set tells its caller *)

\* every slot but dict[key] is after the step what it was before
OtherSlotsKept(dict, key) ==
    \A d \in MirrorNames :
        \A k \in KeysOf(global_input_values, mirror, d) :
            (d # dict \/ k # key)
            => Slot(global_input_values', mirror', d, k)
                 = Slot(global_input_values, mirror, d, k)

\* C21: a set returns None when its candidate is accepted and when it is
\* refused.  Of the program's state a refused set changes nothing, and an
\* accepted set can change only the slot the accessor stores into.
C21_SetReturnsNothing ==
    [][ (IsSet(call') /\ (Passed(call') \/ Rejected(call'))) =>
            /\ call'.ret = None
            /\ call'.exc = "none"
            /\ high_power' = high_power
            /\ OtherSlotsKept(Accessors[call'.who].dict, Accessors[call'.who].key)
            /\ Rejected(call')
               => /\ global_input_values' = global_input_values
                  /\ mirror' = mirror ]_vars

\* an accepted set returned None after it changed its slot, the call before
\* it having been a set too
C21_Witness ==
    /\ IsSet(call) /\ Passed(call) /\ prev.op = "set"
    /\ call.ret = None
    /\ TargetSlot(global_input_values, mirror, call.who).k = "set"
    /\ TargetSlot(global_input_values, mirror, call.who).by = SetLine(call)

-----------------------------------------------------------------------------
(* The register accessors of Common *)

IsRegisterCall(c) == c.op = "register"

\* v is an integer of the range the rule of register accessor r declares
InRegisterRange(r, v) ==
    /\ v.t = "int"
    /\ v.n >= 0
    /\ v.n <= (IF CommonRegisters[r].rule = "register_8" THEN 128 ELSE 9)

\* C22: ese, sre, rcl and sav follow the get/set convention: without an
\* argument they send their query and return the answer; with an integer of
\* the range they send one write that carries the value and return None;
\* with any other value they send no write.
C22_RegistersFollowConvention ==
    IsRegisterCall(call) =>
        /\ call.value = None
           => /\ wire = << [op |-> "query",
                            cmd |-> <<Lit(CommonRegisters[call.who].header \o "?")>>,
                            resp |-> call.ret] >>
              /\ call.exc = "none"
        /\ (call.value # None /\ InRegisterRange(call.who, call.value))
           => /\ Len(Writes(wire)) = 1
              /\ Writes(wire)[1].cmd[1].lit
                   \in {CommonRegisters[call.who].header,
                        CommonRegisters[call.who].header \o " "}
              /\ Writes(wire)[1].cmd[Len(Writes(wire)[1].cmd)]
                   \in {Val(call.value), Val(Accepted(str_of(call.value)))}
              /\ call.ret = None
              /\ call.exc = "none"
        /\ (call.value # None /\ ~InRegisterRange(call.who, call.value))
           => Writes(wire) = <<>>

-----------------------------------------------------------------------------
(* Two callers and one instrument *)

\* caller t made an accepted set and has returned from it
Returned(t) == threads[t].pc = "done" /\ threads[t].asked > 0

\* between the write and the query of caller t another write to the same
\* register landed, and the slot holds what that write left, not what t sent
Interfered(t) ==
    /\ Returned(t)
    /\ TargetSlot(global_input_values, mirror, threads[t].a) = threads[t].resp
    /\ \E j \in (threads[t].sent + 1)..(threads[t].asked - 1) :
          /\ wire[j].op = "write"
          /\ wire[j].cmd # threads[t].line
          /\ threads[t].resp = Stored(wire[j].cmd)

\* C23: a caller that has the Device to itself is never interfered with: its
\* query follows its write at once and the slot holds the answer.  (With a
\* second caller the interference is reachable: C23_Witness.)
C23_AloneNoInterference ==
    Len(threads) = 1 =>
        \A t \in DOMAIN threads :
            /\ ~Interfered(t)
            /\ Returned(t)
               => /\ threads[t].asked = threads[t].sent + 1
                  /\ TargetSlot(global_input_values, mirror, threads[t].a)
                       = wire[threads[t].asked].resp

\* caller 2's write landed between the write and the query of caller 1;
\* caller 1 has returned and its slot holds what caller 2 sent
C23_Witness ==
    /\ Len(threads) = 2
    /\ Interfered(1)
    /\ threads[2].pc = "query"
    /\ threads[1].a = threads[2].a
    /\ TargetSlot(global_input_values, mirror, threads[1].a)
         = Stored(threads[2].line)
    /\ threads[1].line # threads[2].line

-----------------------------------------------------------------------------
(* The mirrors and the instrument *)

\* the queries that ask for the parameter kept in mirror[m][key]: those of
\* the accessor that stores there or, of a key no accessor of the table
\* stores into, the one the constructor sent
KeyQueries(m, key) ==
    LET own == {a \in AccessorNames :
                   Accessors[a].dict = m /\ Accessors[a].key = key}
    IN  IF own # {}
        THEN {QueryText(a, step) : a \in own, step \in Steps}
        ELSE IF key \in DOMAIN Populate(m) THEN {<<Lit(Populate(m)[key])>>}
        ELSE IF key \in DOMAIN PopulateIndexed(m)
        THEN {<<Lit(PopulateIndexed(m)[key]), Lit(" "), Val(PyInt(1))>>}
        ELSE {}

\* mirror[m][key] is what the instrument answers now
Fresh(i, mir, m, key) ==
    /\ key \in DOMAIN mir[m]
    /\ \E q \in KeyQueries(m, key) : mir[m][key] = Respond(i, q)

\* the instrument kept the write of the accepted set c under its command
KeptWrite(c, w, i) ==
    /\ IsSet(c) /\ Passed(c)
    /\ Writes(w) # <<>>
    /\ Respond(i, Register(Writes(w)[1].cmd)) = Stored(Writes(w)[1].cmd)

\* C24: an accepted set that the instrument keeps makes no key of a mode
\* mirror stale: every key that held what the instrument answered before the
\* set holds what the instrument answers after it.
C24_NoKeyGoesStale ==
    [][ KeptWrite(call', wire', inst') =>
            \A m \in ModeNames : \A key \in DOMAIN mirror[m] :
                Fresh(inst, mirror, m, key) => Fresh(inst', mirror', m, key) ]_vars

-----------------------------------------------------------------------------
(* How many transport operations a call makes *)

Ops(w) == [i \in 1..Len(w) |-> w[i].op]

AsksFirst(c) ==
    IF RuleOf(c) \in LevelRules THEN <<"query">> ELSE <<>>

-----------------------------------------------------------------------------
(* Which part of a rule judges a candidate *)

\* the rules that declare a range and tokens
CompositeRules == FloatRules

\* the tokens of the rule alone accept the string s
TokensAccept(rule, s) ==
    find_element(lower(s), lower(str_of_tuple(DeclaredTokens(rule))))

\* C26: under a rule with a range and tokens a number is accepted exactly
\* when the range holds it and a string exactly when the tokens do; a
\* candidate that is neither a number nor a string is refused by every rule
\* with a TypeError that is returned, and nothing is written.
C26_DispatchByType ==
    IsSet(call) =>
        /\ (RuleOf(call) \in CompositeRules /\ Numeric(call.value))
           => (Passed(call) <=> ~OutOfRangeRounded(RuleOf(call), call.value, high_power))
        /\ (RuleOf(call) \in CompositeRules /\ call.value.t = "str")
           => (Passed(call) <=> TokensAccept(RuleOf(call), call.value.s))
        /\ call.value = PyList
           => /\ call.val = TypeError
              /\ call.exc = "none"
              /\ Writes(wire) = <<>>

-----------------------------------------------------------------------------
(* The lines of the step-indexed accessors *)

\* the header of a line without the question mark of a query
Base(line) ==
    LET h == line[1].lit
    IN  IF Len(h) > 0 /\ SubSeq(h, Len(h), Len(h)) = "?"
        THEN SubSeq(h, 1, Len(h) - 1) ELSE h

\* <base> <index>,<value> and <base>? <index>
IndexedWrite(base, index, value) ==
    <<Lit(base), Lit(" "), Val(index), Lit(","), Val(value)>>
IndexedQuery(base, index) == <<Lit(base \o "?"), Lit(" "), Val(index)>>

\* a line without its blanks.  read_write joins the value to the write with
\* ' ', so the lines of the code have a blank after the comma.
NoBlank(line) == SelectSeq(line, LAMBDA piece : piece # Lit(" "))

\* C27: a step-indexed accessor puts <base>? <index> on the wire for a get
\* and <base> <index>,<value> followed by <base>? <index> for an accepted
\* set, with one and the same <base> in the write and in the query.  The
\* write is compared blanks apart.
C27_IndexedLines ==
    (IsAccessorCall(call) /\ Indexed(call) /\ call.exc = "none") =>
        LET last == wire[Len(wire)].cmd
        IN  /\ call.op = "get" => last = IndexedQuery(Base(last), call.step)
            /\ (IsSet(call) /\ Passed(call))
               => /\ last = IndexedQuery(Base(last), call.step)
                  /\ NoBlank(Writes(wire)[1].cmd)
                       = NoBlank(IndexedWrite(Base(last), call.step, call.value))

-----------------------------------------------------------------------------
(* enable() and the input *)

InputQueries == {<<Lit(":INP?")>>, <<Lit(":SHOR?")>>}

\* C28: enable() of a mode writes neither to the input switch nor to the
\* short: the instrument answers ':INP?' and ':SHOR?' after it as before, and
\* the entries input_on and short_on of the shared input mirror are as they
\* were.
C28_EnableKeepsInput ==
    [][ call'.op = "enable" =>
            /\ \A i \in 1..Len(wire') :
                  wire'[i].op = "write" => Register(wire'[i].cmd) \notin InputQueries
            /\ \A q \in InputQueries : Respond(inst', q) = Respond(inst, q)
            /\ global_input_values'.input_on = global_input_values.input_on
            /\ global_input_values'.short_on = global_input_values.short_on ]_vars

\* the input was switched on under one mode, then another mode was enabled
\* and took the function: the input is still on
C28_Witness ==
    /\ call.op = "enable" /\ call.who = "cv"
    /\ prev.op = "on" /\ prev.who = "cc"
    /\ Respond(inst, <<Lit(":FUNC?")>>)
         = Stored(<<Lit(":FUNC"), Lit(" "), Val(PyStr(VOLT))>>)
    /\ Respond(inst, <<Lit(":INP?")>>)
         = Stored(<<Lit(":INP"), Lit(" "), Val(PyStr(ON))>>)
    /\ global_input_values.input_on
         = Stored(<<Lit(":INP"), Lit(" "), Val(PyStr(ON))>>)

-----------------------------------------------------------------------------
(* Construction and the input *)

\* C29: the construction of a Device writes neither to the input switch nor
\* to the short, whatever state the instrument is in: the instrument answers
\* ':INP?' and ':SHOR?' after it as before, and the shared input mirror has
\* the keys input_on, short_on and mode and no other.
C29_ConstructionKeepsInput ==
    [][ (IsNew(call') /\ call'.who = "device") =>
            /\ \A i \in 1..Len(wire') :
                  wire'[i].op = "write" => Register(wire'[i].cmd) \notin InputQueries
            /\ \A q \in InputQueries : Respond(inst', q) = Respond(inst, q)
            /\ DOMAIN global_input_values' = {"input_on", "short_on", "mode"} ]_vars

\* a Device was constructed on an instrument whose input and short were on:
\* both still are, and the mirror shows them
C29_Witness ==
    /\ IsNew(call) /\ call.who = "device"
    /\ Writes(wire) # <<>>
    /\ global_input_values.input_on
         = Stored(<<Lit(":INP"), Lit(" "), Val(PyStr(ON))>>)
    /\ global_input_values.short_on
         = Stored(<<Lit(":SHOR"), Lit(" "), Val(PyStr(ON))>>)
    /\ Respond(inst, <<Lit(":SHOR?")>>) = global_input_values.short_on
    /\ "mode" \in DOMAIN global_input_values

-----------------------------------------------------------------------------
(* off() *)

InputOff == <<Lit(":INP"), Lit(" "), Val(PyStr(OFF))>>

\* C30: off() sends one write, ':INP OFF', and then one query, ':INP?'; it
\* stores the answer under input_on and changes nothing else: the entries
\* mode and short_on and every mode mirror are as they were.
C30_OffOnlySwitchesInput ==
    [][ call'.op = "off" =>
            /\ Len(wire') = 2
            /\ wire'[1] = [op |-> "write", cmd |-> InputOff]
            /\ wire'[2].op = "query" /\ wire'[2].cmd = <<Lit(":INP?")>>
            /\ global_input_values'
                 = [global_input_values EXCEPT !.input_on = wire'[2].resp]
            /\ mirror' = mirror
            /\ call'.exc = "none" ]_vars

\* the input was on under the list mode and was switched off: the function
\* entry still names the list
C30_Witness ==
    /\ call.op = "off" /\ prev.op = "on" /\ prev.who = "list"
    /\ global_input_values.input_on = Stored(InputOff)
    /\ Respond(inst, <<Lit(":INP?")>>) = Stored(InputOff)
    /\ global_input_values.mode = Literal("LIST")

-----------------------------------------------------------------------------
(* set_a_and_b: the four fields *)

\* the accessors set_a_and_b calls, in the order of its arguments
ABFields == <<"dyncc_a_level", "dyncc_b_level", "dyncc_a_width", "dyncc_b_width">>

\* the rule of field i accepts the i-th argument of call c
FieldValid(c, i) ==
    Validator(Accessors[ABFields[i]].rule, c.value.v[i], high_power).res = "ok"

\* what an attempt of field i puts on the transport: its write and its
\* query when the rule accepts the argument, nothing when it refuses it
FieldLines(c, i) ==
    IF FieldValid(c, i)
    THEN << [op |-> "write",
             cmd |-> <<Lit(Accessors[ABFields[i]].write), Lit(" "), Val(c.value.v[i])>>],
            [op |-> "query", cmd |-> <<Lit(Accessors[ABFields[i]].query)>>] >>
    ELSE <<>>

\* the operations of w without the answers
Lines(w) == [i \in DOMAIN w |-> [op |-> w[i].op, cmd |-> w[i].cmd]]

\* where on the wire the query of an accepted field i stands
FieldQueryAt(c, i) == 2 * Cardinality({j \in 1..i : FieldValid(c, j)})

\* C31: set_a_and_b attempts a_level, b_level, a_width and b_width in that
\* order and a refused field does not stop it: every field whose rule accepts
\* its argument is written and asked for again, in the order of the fields,
\* and its slot holds that answer; every refused field sends nothing, leaves
\* its slot as it was and prints one warning; nothing is raised.
C31_AllFourFieldsAttempted ==
    [][ IsSetAAndB(call') =>
            /\ Lines(wire') = FieldLines(call', 1) \o FieldLines(call', 2)
                                \o FieldLines(call', 3) \o FieldLines(call', 4)
            /\ \A i \in 1..4 :
                  LET key == Accessors[ABFields[i]].key
                  IN  IF FieldValid(call', i)
                      THEN mirror'.dyncc[key] = wire'[FieldQueryAt(call', i)].resp
                      ELSE mirror'.dyncc[key] = mirror.dyncc[key]
            /\ call'.diag = Cardinality({i \in 1..4 : ~FieldValid(call', i)})
            /\ call'.exc = "none" ]_vars

\* a_level and a_width were refused, b_level and b_width went through after
\* them: the mirror shows the two new values next to the two old ones
C31_Witness ==
    /\ IsSetAAndB(call)
    /\ ~FieldValid(call, 1) /\ FieldValid(call, 2)
    /\ ~FieldValid(call, 3) /\ FieldValid(call, 4)
    /\ Len(wire) = 4
    /\ mirror.dyncc.a_level = PowerOn(<<Lit(":CURR:TRAN:ALEV?")>>)
    /\ mirror.dyncc.b_level
         = Stored(<<Lit(":CURR:TRAN:BLEV"), Lit(" "), Val(call.value.v[2])>>)
    /\ mirror.dyncc.a_width = PowerOn(<<Lit(":CURR:TRAN:AWID?")>>)
    /\ mirror.dyncc.b_width
         = Stored(<<Lit(":CURR:TRAN:BWID"), Lit(" "), Val(call.value.v[4])>>)

-----------------------------------------------------------------------------
(* The step of the list and program accessors *)

\* step_range accepts the step of call c
StepInTable(c) == step_range(c.step).res = "ok"

\* C32: the step of a list or program accessor does not gate the call.
\* Whatever the step, one outside 0..100 or one that is no int included, the
\* get sends its one query with that step and returns the answer, a set
\* whose candidate the rule accepts sends its write with that step, and
\* no warning is printed for the step.
C32_StepDoesNotGate ==
    (IsAccessorCall(call) /\ Indexed(call)) =>
        /\ call.op = "get" => Queried(call, wire) /\ call.diag = 0
        /\ (call.op = "set" /\ Passed(call)) =>
              /\ \E i \in DOMAIN wire : wire[i] = WriteOf(SetLine(call))
              /\ call.diag = 0

\* a list level set at step 101: the instrument holds it under that step
C32_WitnessBeyond ==
    /\ call.op = "set" /\ call.who = "list_level" /\ Passed(call)
    /\ call.step = PyInt(101) /\ ~StepInTable(call)
    /\ mirror.list.level = Stored(SetLine(call))
    /\ Respond(inst, <<Lit(":LIST:LEV?"), Lit(" "), Val(PyInt(101))>>)
         = Stored(SetLine(call))

\* a program level get at a step that is no int
C32_WitnessNoInt ==
    /\ call.op = "get" /\ call.who = "prog_level"
    /\ call.step.t = "float" /\ step_range(call.step) = TypeError
    /\ Len(wire) = 1

-----------------------------------------------------------------------------
(* The slot of a step-indexed parameter *)

\* an accepted set of an indexed accessor follows an accepted set of the
\* same accessor at another step
StepAfterStep(c, d) ==
    /\ IsSet(c) /\ Passed(c)
    /\ IsSet(d) /\ Passed(d)
    /\ d.who = c.who
    /\ Indexed(d)
    /\ d.step # c.step

\* the slot of accessor a holds the answer for step j that w ends with, and
\* no key of that mirror holds v
HoldsLastOnly(c, w, mir, v) ==
    LET d == mir[Accessors[c.who].dict]
    IN  /\ w[Len(w)].op = "query"
        /\ w[Len(w)].cmd = QueryLine(c)
        /\ d[Accessors[c.who].key] = w[Len(w)].resp
        /\ \A x \in DOMAIN d : d[x] # v

\* C33: a step-indexed parameter has one slot in the mirror of its mode.
\* After an accepted set at step i and then an accepted set at step j # i of
\* the same parameter the slot holds the answer asked for step j, and the
\* answer that was confirmed for step i is under no key of that mirror.
C33_OneSlotForAllSteps ==
    [][ StepAfterStep(call, call') =>
            HoldsLastOnly(call', wire', mirror',
                          TargetSlot(global_input_values, mirror, call.who)) ]_vars

-----------------------------------------------------------------------------
(* Raw access through the Device facade *)

IsRawWrite(c) == c.op = "raw_write"
IsRawQuery(c) == c.op = "raw_query"

\* the slot accessor a stores into shows what the instrument answers now to
\* the accessor's query at a step
InStep(i, g, mir, a, step) ==
    TargetSlot(g, mir, a) = Respond(i, QueryText(a, step))

\* C34: raw access bypasses validation and mirroring.  A raw write sends
\* its line as it is, whatever the line, with no warning, and changes no mode
\* mirror and no entry of the shared input mirror; a raw query sends its
\* line, returns the answer and changes no mirror either.  A get leaves the
\* slots as the raw write left them; an accepted set of a parameter's
\* accessor brings that parameter's slot back in step with the instrument.
C34_RawAccessBypassesMirrors ==
    [][ /\ IsRawWrite(call') =>
              /\ wire' = <<WriteOf(call'.value.v)>>
              /\ mirror' = mirror
              /\ global_input_values' = global_input_values
              /\ call'.diag = 0 /\ call'.exc = "none" /\ call'.ret = None
        /\ IsRawQuery(call') =>
              /\ wire' = << [op |-> "query", cmd |-> call'.value.v,
                              resp |-> call'.ret] >>
              /\ call'.ret = Respond(inst, call'.value.v)
              /\ mirror' = mirror
              /\ global_input_values' = global_input_values
              /\ inst' = inst
        /\ (IsRawWrite(call) /\ call'.op \in {"get", "raw_query"}) =>
              /\ mirror' = mirror
              /\ global_input_values' = global_input_values
        /\ (IsRawWrite(call) /\ IsSet(call') /\ Passed(call')) =>
              InStep(inst', global_input_values', mirror', call'.who, call'.step) ]_vars

\* a raw write of a level the rule of cc.level refuses: the instrument holds
\* it and the mirror of the mode still shows the level read at construction
C34_Witness ==
    /\ IsRawWrite(call)
    /\ call.value.v = <<Lit(":CURR"), Lit(" "), Val(PyInt(99))>>
    /\ Validator("current", PyInt(99), high_power) = ValueError
    /\ Respond(inst, <<Lit(":CURR?")>>) = Stored(call.value.v)
    /\ mirror.cc.level = PowerOn(<<Lit(":CURR?")>>)
    /\ ~InStep(inst, global_input_values, mirror, "cc_level", PyInt(1))

\* the accessor's accepted set after the raw write: slot and instrument agree
C34_WitnessHealed ==
    /\ prev.op = "raw_write"
    /\ IsSet(call) /\ call.who = "cc_level" /\ Passed(call)
    /\ mirror.cc.level = Stored(SetLine(call))
    /\ InStep(inst, global_input_values, mirror, "cc_level", PyInt(1))

-----------------------------------------------------------------------------
(* The input mirror and two Devices *)

OfSecond(c, op) == c.op = op /\ c.who = "second"

\* what the second Device's instrument answers
SecondAnswers(sec, query) == Respond(sec.inst, query)

\* C35: the shared input mirror is one mapping for the whole process.  The
\* modes of both Devices refer to the same mapping; constructing the second
\* Device leaves in it, as seen through the first Device, the input state,
\* the short state and the mode answered by the second Device's instrument;
\* an accepted input set through the second Device replaces input_on by
\* that instrument's answer, and enable() through it replaces mode.
C35_OneInputMirrorPerProcess ==
    [][ LET seen == InputSeen(global_input_values', second', 1)
            before == InputSeen(global_input_values, second, 1)
        IN  /\ \A d \in Devices :
                  InputSeen(global_input_values', second', d) = seen
            /\ OfSecond(call', "new") =>
                  /\ seen.input_on = SecondAnswers(second', <<Lit(":INP?")>>)
                  /\ seen.short_on = SecondAnswers(second', <<Lit(":SHOR?")>>)
                  /\ seen.mode = SecondAnswers(second', <<Lit(":FUNC:TRAN?")>>)
            /\ (OfSecond(call', "set") /\ Passed(call')) =>
                  seen = [before EXCEPT
                            !.input_on = SecondAnswers(second', <<Lit(":INP?")>>)]
            /\ OfSecond(call', "enable") =>
                  seen = [before EXCEPT
                            !.mode = IF call'.value.m = "list" THEN Literal("LIST")
                                     ELSE Concat("STATIC ",
                                            SecondAnswers(second', <<Lit(":FUNC?")>>))]
      ]_vars

\* the first Device had enabled the list on an instrument whose input and
\* short are off; the second Device was then constructed on an instrument
\* whose input and short are on: the mapping seen through the first Device
\* shows the second instrument's input and short and no longer the list
C35_Witness ==
    /\ OfSecond(call, "new")
    /\ prev.op = "enable" /\ prev.who = "first"
    /\ Respond(inst, <<Lit(":INP?")>>) = PowerOn(<<Lit(":INP?")>>)
    /\ Respond(inst, <<Lit(":SHOR?")>>) = PowerOn(<<Lit(":SHOR?")>>)
    /\ InputSeen(global_input_values, second, 1).input_on
         = Stored(<<Lit(":INP"), Lit(" "), Val(PyStr(ON))>>)
    /\ InputSeen(global_input_values, second, 1).short_on
         = Stored(<<Lit(":SHOR"), Lit(" "), Val(PyStr(ON))>>)
    /\ InputSeen(global_input_values, second, 1).mode
         = PowerOn(<<Lit(":FUNC:TRAN?")>>)

\* an input set through the second Device switched its instrument off: the
\* first Device's modes show the input as off while its own is on
C35_WitnessSet ==
    /\ OfSecond(call, "set") /\ Passed(call)
    /\ Respond(inst, <<Lit(":INP?")>>)
         = Stored(<<Lit(":INP"), Lit(" "), Val(PyStr(ON))>>)
    /\ InputSeen(global_input_values, second, 1).input_on
         = Stored(<<Lit(":INP"), Lit(" "), Val(PyStr(OFF))>>)

-----------------------------------------------------------------------------
(* The power range and the model *)

\* the model of the instrument the session is opened on
ModelOf(i) == CHOOSE m \in Models : i[<<Lit("*IDN?")>>] = Idn(m)

\* the greatest power level of a model, in units
PowerTop(m) == (IF m \in {SDL1030X, SDL1030X_E} THEN 300 ELSE 200) * Unit

\* C36: the upper bound of the power rule follows the model field of the
\* identification read when the validator was made: a numeric power level
\* is accepted exactly when, rounded to two places, it lies between 0 and
\* 300 on the models SDL1030X and SDL1030X-E, and between 0 and 200 on
\* every other model.
C36_PowerBoundFollowsModel ==
    (IsSet(call) /\ call.who = "cp_level" /\ Numeric(call.value)) =>
        LET x == round(float_of(call.value), 2)
        IN  Passed(call) <=> (0 <= x /\ x <= PowerTop(ModelOf(inst)))

\* 300 W on an SDL1030X-E: accepted, written and confirmed
C36_Witness ==
    /\ IsSet(call) /\ call.who = "cp_level"
    /\ ModelOf(inst) = SDL1030X_E
    /\ call.value = PyInt(300)
    /\ Passed(call)
    /\ mirror.cp.level = Stored(<<Lit(":POW"), Lit(" "), Val(PyInt(300))>>)

\* 200.01 W on an SDL1020X: refused, nothing written
C36_WitnessLow ==
    /\ IsSet(call) /\ call.who = "cp_level"
    /\ ModelOf(inst) = SDL1020X
    /\ call.value = PyFloat(200 * Unit + 1000)
    /\ Rejected(call)
    /\ Writes(wire) = <<>>

=============================================================================
